---- MODULE Spec2Model ----
(***************************************************************************)
(* Model of the email-resolution core of OutPilot: the daily research       *)
(* quota (research/email_research_quota.py), the fallback resolver          *)
(* (research/email_finder.py), the evidence-scoring resolver                *)
(* (research/accurate_email_finder.py), the domain resolver                *)
(* (research/domain_finder.py), the company-name variants                   *)
(* (research/company_variants.py) and the Gmail sender (outreach/sender.py).*)
(*                                                                         *)
(* Strings of the program are sequences of one-character strings, so that   *)
(* lower-casing, stripping, splitting and substring tests are computed.     *)
(* A method tag is a sequence of tag parts: <<"smtp_verified">> is the      *)
(* string "smtp_verified", <<"smtp_verified", "+quota_fallback">> the       *)
(* string "smtp_verified+quota_fallback", <<>> the empty string.            *)
(***************************************************************************)
EXTENDS Integers, Sequences, FiniteSets, TLC

\* ------------------------------------------------------------------ bounds
\* Calendar days the model runs through (day 0 .. MaxDay).
MaxDay == 1
\* research.accurate_email_daily_limit of config/settings.yaml, kept small.
DailyLimitCfg == 2
\* Largest number of hits one web search reports in the model.
MaxHits == 1
\* outreach.max_emails_per_day of config/settings.yaml, kept small.
MaxPerDayCfg == 2
\* Messages one EmailSender gets accepted per day in the model, at most.
MaxHanded == 4

\* ------------------------------------------------------------------ strings
LowerLetters ==
    {"a","b","c","d","e","f","g","h","i","j","k","l","m",
     "n","o","p","q","r","s","t","u","v","w","x","y","z"}

UpperSeq ==
    <<"A","B","C","D","E","F","G","H","I","J","K","L","M",
      "N","O","P","Q","R","S","T","U","V","W","X","Y","Z">>
LowerSeq ==
    <<"a","b","c","d","e","f","g","h","i","j","k","l","m",
      "n","o","p","q","r","s","t","u","v","w","x","y","z">>
UpperLetters == {UpperSeq[i] : i \in 1..Len(UpperSeq)}
LowerOf == [c \in UpperLetters |-> LowerSeq[CHOOSE i \in 1..Len(UpperSeq) : UpperSeq[i] = c]]

\* str.lower() on one character.
LowerChar(c) == IF c \in UpperLetters THEN LowerOf[c] ELSE c

\* str.lower()
Lower(s) == [i \in 1..Len(s) |-> LowerChar(s[i])]

IsSpace(c) == c \in {" ", "\t"}

\* str.strip()
RECURSIVE LStrip(_)
LStrip(s) == IF s # <<>> /\ IsSpace(Head(s)) THEN LStrip(Tail(s)) ELSE s

RECURSIVE RStrip(_)
RStrip(s) ==
    IF s # <<>> /\ IsSpace(s[Len(s)]) THEN RStrip(SubSeq(s, 1, Len(s) - 1)) ELSE s

Strip(s) == RStrip(LStrip(s))

\* re.sub(r"\s+", " ", s)
RECURSIVE CollapseSpaces(_)
CollapseSpaces(s) ==
    IF s = <<>> THEN <<>>
    ELSE IF IsSpace(Head(s))
         THEN <<" ">> \o CollapseSpaces(LStrip(s))
         ELSE <<Head(s)>> \o CollapseSpaces(Tail(s))

\* s.split(sep) for a one-character separator: the list of fields.
RECURSIVE SplitOn(_, _)
SplitOn(s, sep) ==
    IF \E i \in 1..Len(s) : s[i] = sep
    THEN LET i == CHOOSE k \in 1..Len(s) :
                      s[k] = sep /\ \A m \in 1..(k - 1) : s[m] # sep
         IN  <<SubSeq(s, 1, i - 1)>> \o SplitOn(SubSeq(s, i + 1, Len(s)), sep)
    ELSE <<s>>

\* re.sub(r"[^a-z]", "", s)
RECURSIVE OnlyLetters(_)
OnlyLetters(s) ==
    IF s = <<>> THEN <<>>
    ELSE IF Head(s) \in LowerLetters
         THEN <<Head(s)>> \o OnlyLetters(Tail(s))
         ELSE OnlyLetters(Tail(s))

\* sub in s
Contains(sub, s) ==
    \E i \in 1..(Len(s) - Len(sub) + 1) : SubSeq(s, i, i + Len(sub) - 1) = sub

\* x in list
InList(x, list) == \E i \in 1..Len(list) : list[i] = x

\* email.split("@")[0]
LocalPart(email) == SplitOn(email, "@")[1]

\* ------------------------------------------------------------------ inputs
Empty == <<>>
Dot == <<".">>
At == <<"@">>

\* Domains the resolvers are asked about.
DomEx == <<"e","x",".","c","o">>
Domains == {DomEx}

\* full_name arguments of find_best_email.
NameJoDoe == <<" ","J","o"," "," ","W","."," ","D","o","e">>
NameHr == <<"H","r">>
NameDigits == <<"7","7"," ","D","o","e">>
FullNames == {Empty, <<" ">>, NameDigits, NameJoDoe, NameHr}

\* config/email_patterns.yaml: a pattern is a list of placeholders and
\* literal characters.
PatFirstDotLast == <<"{first}", ".", "{last}", "@", "{domain}">>
PatFirst == <<"{first}", "@", "{domain}">>
PatFLast == <<"{f}", "{last}", "@", "{domain}">>
PatternLists ==
    { <<PatFirst, PatFirstDotLast, PatFLast>>,
      <<>> }

\* ----------------------------------------------------- candidate generation
\* pattern.replace("{first}", first).replace("{last}", last)
\*        .replace("{f}", f).replace("{l}", l).replace("{domain}", domain)
RECURSIVE ExpandPattern(_, _, _, _, _, _)
ExpandPattern(pattern, first, last, f, l, domain) ==
    IF pattern = <<>> THEN <<>>
    ELSE LET t == Head(pattern)
             piece == CASE t = "{first}"  -> first
                        [] t = "{last}"   -> last
                        [] t = "{f}"      -> f
                        [] t = "{l}"      -> l
                        [] t = "{domain}" -> domain
                        [] OTHER          -> <<t>>
         IN  piece \o ExpandPattern(Tail(pattern), first, last, f, l, domain)

\* first[0] if first else ""
Initial(s) == IF s = <<>> THEN <<>> ELSE <<Head(s)>>

\* _normalize_name that takes the last token for a first token without letters
NormalizeNameLastAsFirst(full_name) ==
    LET cleaned == Strip(CollapseSpaces(full_name))
        parts == SplitOn(cleaned, " ")
        first == OnlyLetters(Lower(parts[1]))
        last == IF Len(parts) > 1 THEN OnlyLetters(Lower(parts[Len(parts)])) ELSE Empty
    IN  IF cleaned = <<>> THEN <<Empty, Empty>>
        ELSE << IF first = <<>> THEN last ELSE first, last >>

\* AccurateEmailFinder._normalize_name: <<first, last>>
NormalizeName(full_name) ==
    LET cleaned == Strip(CollapseSpaces(full_name))
        parts == SplitOn(cleaned, " ")
    IN  IF cleaned = <<>> THEN <<Empty, Empty>>
        ELSE << OnlyLetters(Lower(parts[1])),
                IF Len(parts) > 1 THEN OnlyLetters(Lower(parts[Len(parts)])) ELSE Empty >>

\* _normalize_name on the names of the model, computed once.
NameParts == [n \in FullNames |-> NormalizeName(n)]

\* The loop of _build_candidates without the "email not in candidates" test
RECURSIVE BuildLoopNoDedupe(_, _, _, _, _)
BuildLoopNoDedupe(pats, first, last, domain, acc) ==
    IF pats = <<>> THEN acc
    ELSE LET email == ExpandPattern(Head(pats), first, last,
                                    Initial(first), Initial(last), domain)
         IN  BuildLoopNoDedupe(Tail(pats), first, last, domain,
                               IF email # <<>> THEN Append(acc, email) ELSE acc)

\* The loop of _build_candidates over the patterns, with the emails kept so far.
RECURSIVE BuildLoop(_, _, _, _, _)
BuildLoop(pats, first, last, domain, acc) ==
    IF pats = <<>> THEN acc
    ELSE LET email == ExpandPattern(Head(pats), first, last,
                                    Initial(first), Initial(last), domain)
         IN  BuildLoop(Tail(pats), first, last, domain,
                       IF email # <<>> /\ ~InList(email, acc)
                       THEN Append(acc, email) ELSE acc)

\* AccurateEmailFinder._build_candidates
BuildCandidates(pats, first, last, domain) ==
    LET cands == BuildLoop(pats, first, last, domain, <<>>)
    IN  IF cands = <<>> /\ first # <<>> /\ domain # <<>>
        THEN <<first \o At \o domain>>
        ELSE cands

\* The candidate loop of EmailFinder.find_email (no emptiness test there).
RECURSIVE BasicBuildLoop(_, _, _, _, _)
BasicBuildLoop(pats, first, last, domain, acc) ==
    IF pats = <<>> THEN acc
    ELSE LET email == ExpandPattern(Head(pats), first, last,
                                    <<Head(first)>>, <<Head(last)>>, domain)
         IN  BasicBuildLoop(Tail(pats), first, last, domain,
                            IF ~InList(email, acc) THEN Append(acc, email) ELSE acc)

\* best_guess without the first.last default of an empty pattern list
BestGuessNoDefault(cands, first, last, domain) ==
    IF cands # <<>> THEN cands[1] ELSE <<>>

\* best_guess of EmailFinder.find_email
BestGuess(cands, first, last, domain) ==
    IF cands # <<>> THEN cands[1] ELSE first \o Dot \o last \o At \o domain

\* candidates of EmailFinder.find_email, best_guess inserted when missing
BasicCandidates(pats, first, last, domain) ==
    LET cands == BasicBuildLoop(pats, first, last, domain, <<>>)
        guess == BestGuess(cands, first, last, domain)
    IN  IF InList(guess, cands) THEN cands ELSE <<guess>> \o cands

\* ------------------------------------------------------- the environment
\* What the network answers during one call. Every field is read only by the
\* step that performs the request:
\*   web       emails the website pages yield (sorted; <<>> when the pages
\*             are unreachable or hold none)
\*   mx        MX hosts of the domain (<<>> when there are none or the
\*             lookup fails)
\*   connect   whether port 25 of the first MX host can be reached
\*   fake      whether the server answers 250 to the fabricated address
\*   accepted  the candidates the server answers 250 to
\*   github    the email the GitHub lookup yields (<<>> for none or failure)
\*   mentions  the candidates whose quoted search finds them in the result text
\*   ctx       the emails at the domain found by the contextual search
MxHost == <<"m","x">>

Event(kind, arg) == [ev |-> kind, arg |-> arg]

\* Emails a website of the domain can show.
WebLists(domain) ==
    { <<>>,
      << <<"j","o",".","d","o","e">> \o At \o domain >>,
      << <<"j","d","o","e">> \o At \o domain >>,
      << <<"j","o",".","d","o","e","2">> \o At \o domain >> }

GithubEmails(domain) ==
    IF domain = <<>> THEN {<<>>} ELSE { <<>>, <<"j","o","e">> \o At \o domain }

SeqRange(list) == {list[i] : i \in 1..Len(list)}

SmallSubsets(S) == {T \in SUBSET S : Cardinality(T) <= MaxHits}

\* Answers of the mail side: no MX; port 25 blocked; a catch-all server
\* (accepts the fabricated address and every candidate); a server that
\* rejects the fabricated address and accepts some candidates.
SmtpAnswers(cands) ==
    { [mx |-> <<>>, connect |-> FALSE, fake |-> FALSE, accepted |-> {}],
      [mx |-> <<MxHost>>, connect |-> FALSE, fake |-> FALSE, accepted |-> {}],
      [mx |-> <<MxHost>>, connect |-> TRUE, fake |-> TRUE,
       accepted |-> SeqRange(cands)] }
    \cup { [mx |-> <<MxHost>>, connect |-> TRUE, fake |-> FALSE, accepted |-> A] :
           A \in SmallSubsets(SeqRange(cands)) }

\* ------------------------------------------------------------ EmailFinder
\* EmailFinder._detect_catchall
FakeAddress(domain) ==
    <<"d","e","f","i","n","i","t","e","l","y","_","n","o","t","_","a","_",
      "r","e","a","l","_","u","s","e","r","_","1","2","3","4","5","6","7">>
    \o At \o domain

\* The page loop of scrape_website_emails: a request that raises or answers
\* another status than 200 adds nothing (env.failed names the sources that
\* fail during the call).
PagesEmails(env) == IF "web" \in env.failed THEN <<>> ELSE env.web

\* EmailFinder._smtp_verify: code == 250, False when the session raises.
SmtpVerify(email, domain, env) ==
    /\ "smtp" \notin env.failed
    /\ IF email = FakeAddress(domain) THEN env.fake ELSE email \in env.accepted

\* EmailFinder.scrape_website_emails: [emails, cache, log]
ScrapeWebsiteEmails(domain, cache, web) ==
    IF domain \in DOMAIN cache
    THEN [emails |-> cache[domain], cache |-> cache, log |-> <<>>]
    ELSE [emails |-> web,
          cache |-> (domain :> web) @@ cache,
          log |-> <<Event("http_get", domain)>>]

\* The name tests of EmailFinder._match_website_email on one local part.
BasicLocalMatches(first, last, local) ==
    \/ /\ first # <<>> /\ last # <<>>
       /\ \/ Contains(first \o Dot \o last, local)
          \/ Contains(first \o last, local)
          \/ Contains(<<Head(first)>> \o last, local)
          \/ Contains(<<Head(first)>> \o Dot \o last, local)
    \/ first # <<>> /\ local = first

\* for email in emails: ... return email; return ""
RECURSIVE FirstBasicMatch(_, _, _)
FirstBasicMatch(first, last, emails) ==
    IF emails = <<>> THEN <<>>
    ELSE IF BasicLocalMatches(first, last, Lower(LocalPart(Head(emails))))
         THEN Head(emails)
         ELSE FirstBasicMatch(first, last, Tail(emails))

\* _get_mx that remembers only the lookups that found a host
GetMxForgetful(domain, cache, mx) ==
    IF domain \in DOMAIN cache
    THEN [hosts |-> cache[domain], cache |-> cache, log |-> <<>>]
    ELSE [hosts |-> mx,
          cache |-> IF mx = <<>> THEN cache ELSE (domain :> mx) @@ cache,
          log |-> <<Event("mx_lookup", domain)>>]

\* What dns.resolver.resolve(domain, "MX") comes to in _get_mx: the hosts, []
\* when the lookup raises.
MxResolve(answer) == IF answer.ok THEN answer.hosts ELSE <<>>

\* EmailFinder._get_mx: [hosts, cache, log]
GetMx(domain, cache, mx) ==
    IF domain \in DOMAIN cache
    THEN [hosts |-> cache[domain], cache |-> cache, log |-> <<>>]
    ELSE [hosts |-> mx,
          cache |-> (domain :> mx) @@ cache,
          log |-> <<Event("mx_lookup", domain)>>]

\* the probe loop without the pause before a probe
RECURSIVE ProbeLoopNoDelay(_, _, _)
ProbeLoopNoDelay(cands, accepted, log) ==
    IF cands = <<>> THEN [email |-> <<>>, log |-> log]
    ELSE LET c == Head(cands)
             log2 == log \o <<Event("rcpt", c)>>
         IN  IF c \in accepted
             THEN [email |-> c, log |-> log2]
             ELSE ProbeLoopNoDelay(Tail(cands), accepted, log2)

\* The probe loop of _try_smtp_verification: [email, log]
RECURSIVE ProbeLoop(_, _, _)
ProbeLoop(cands, accepted, log) ==
    IF cands = <<>> THEN [email |-> <<>>, log |-> log]
    ELSE LET c == Head(cands)
             log2 == log \o <<Event("sleep", <<>>), Event("rcpt", c)>>
         IN  IF c \in accepted
             THEN [email |-> c, log |-> log2]
             ELSE ProbeLoop(Tail(cands), accepted, log2)

\* _try_smtp_verification that probes the candidates of a catch-all domain too
TrySmtpVerificationTrusting(cands, domain, cache, env) ==
    LET m == GetMx(domain, cache, env.mx)
        log1 == m.log \o <<Event("connect25", m.hosts[1])>>
        log2 == log1 \o <<Event("rcpt", FakeAddress(domain))>>
    IN  IF m.hosts = <<>>
        THEN [email |-> <<>>, cache |-> m.cache, log |-> m.log]
        ELSE IF ~env.connect
        THEN [email |-> <<>>, cache |-> m.cache, log |-> log1]
        ELSE LET r == ProbeLoop(cands,
                                {c \in SeqRange(cands) : SmtpVerify(c, domain, env)},
                                log2)
             IN  [email |-> r.email, cache |-> m.cache, log |-> r.log]

\* EmailFinder._try_smtp_verification: [email, cache, log]
TrySmtpVerification(cands, domain, cache, env) ==
    LET m == GetMx(domain, cache, env.mx)
        log1 == m.log \o <<Event("connect25", m.hosts[1])>>
        log2 == log1 \o <<Event("rcpt", FakeAddress(domain))>>
    IN  IF m.hosts = <<>>
        THEN [email |-> <<>>, cache |-> m.cache, log |-> m.log]
        ELSE IF ~env.connect
        THEN [email |-> <<>>, cache |-> m.cache, log |-> log1]
        ELSE IF SmtpVerify(FakeAddress(domain), domain, env)
        THEN [email |-> <<>>, cache |-> m.cache, log |-> log2]
        ELSE LET r == ProbeLoop(cands,
                                {c \in SeqRange(cands) : SmtpVerify(c, domain, env)},
                                log2)
             IN  [email |-> r.email, cache |-> m.cache, log |-> r.log]

Result(email, confidence, cands, method) ==
    [email |-> email, confidence |-> confidence,
     all_candidates |-> cands, method |-> method]

EmptyResult == Result(<<>>, "low", <<>>, <<>>)

\* What the evidence sources of one call yielded ("" for nothing).
Found(website_match, mention_hits, contextual_hits, smtp_verified, github) ==
    [website_match |-> website_match, mention_hits |-> mention_hits,
     contextual_hits |-> contextual_hits, smtp_verified |-> smtp_verified,
     github |-> github]

NothingFound == Found(<<>>, {}, {}, <<>>, <<>>)

\* EmailFinder.find_email: [result, webCache, mxCache, log, found]
FindEmail(pats, smtpEnabled, first_name, last_name, domain, webCache, mxCache, env) ==
    LET first == OnlyLetters(Lower(first_name))
        last == OnlyLetters(Lower(last_name))
    IN  IF first = <<>> \/ last = <<>> \/ domain = <<>>
        THEN [result |-> EmptyResult, webCache |-> webCache,
              mxCache |-> mxCache, log |-> <<>>, found |-> NothingFound]
        ELSE
        LET cands == BasicCandidates(pats, first, last, domain)
            guess == BestGuess(BasicBuildLoop(pats, first, last, domain, <<>>),
                               first, last, domain)
            w == ScrapeWebsiteEmails(domain, webCache, PagesEmails(env))
            website_email == FirstBasicMatch(first, last, w.emails)
            s == IF smtpEnabled
                 THEN TrySmtpVerification(cands, domain, mxCache, env)
                 ELSE [email |-> <<>>, cache |-> mxCache, log |-> <<>>]
            g == Event("github_search", first_name \o <<" ">> \o last_name)
        IN  IF website_email # <<>>
            THEN [result |-> Result(website_email, "high", cands, <<"website_scrape">>),
                  webCache |-> w.cache, mxCache |-> mxCache, log |-> w.log,
                  found |-> Found(website_email, {}, {}, <<>>, <<>>)]
            ELSE IF s.email # <<>>
            THEN [result |-> Result(s.email, "high", cands, <<"smtp_verified">>),
                  webCache |-> w.cache, mxCache |-> s.cache, log |-> w.log \o s.log,
                  found |-> Found(<<>>, {}, {}, s.email, <<>>)]
            ELSE IF env.github # <<>>
            THEN [result |-> Result(env.github, "medium",
                                    Append(cands, env.github), <<"github">>),
                  webCache |-> w.cache, mxCache |-> s.cache,
                  log |-> w.log \o s.log \o <<g>>,
                  found |-> Found(<<>>, {}, {}, <<>>, env.github)]
            ELSE [result |-> Result(guess, "low", cands, <<"pattern_guess">>),
                  webCache |-> w.cache, mxCache |-> s.cache,
                  log |-> w.log \o s.log \o <<g>>, found |-> NothingFound]

\* ----------------------------------------------------- EmailResearchQuota
\* The quota file: absent, or the record {date, count} that _save wrote, or
\* any other content: "unreadable" (read_text fails), "empty" and "partial"
\* (not JSON), "json_list" (JSON, not an object), "json_dict" (an object
\* without a date), "bad_count" (a dated object whose count is no number).
NoFile == [kind |-> "absent", date |-> 0, count |-> 0]

\* EmailResearchQuota.__init__: self.daily_limit = max(1, int(daily_limit))
DailyLimit == IF DailyLimitCfg < 1 THEN 1 ELSE DailyLimitCfg

\* EmailResearchQuota._load raises: data.get on a value that is no dict, or
\* int() of a count that is no number.
LoadRaises(file, day) ==
    \/ file.kind = "json_list"
    \/ file.kind = "bad_count" /\ file.date = day

\* EmailResearchQuota._load, when it returns
Load(file, day) ==
    IF file.kind = "absent" THEN 0
    ELSE IF file.kind \in {"unreadable", "empty", "partial"} THEN 0
    ELSE IF file.kind = "json_dict" THEN 0
    ELSE IF file.date # day THEN 0
    ELSE file.count

\* EmailResearchQuota._save
Save(count, day) == [kind |-> "record", date |-> day, count |-> count]

\* can_process with the comparison off by one
CanProcessInclusive(count) == count <= DailyLimit

\* EmailResearchQuota.can_process
CanProcess(count) == count < DailyLimit

\* increment that counts a resolution twice
IncrementTwice(count) == count + 2

\* EmailResearchQuota.increment (n = 1): the new count
Increment(count) == count + 1

\* EmailResearchQuota.remaining
Remaining(count) == IF DailyLimit - count < 0 THEN 0 ELSE DailyLimit - count

\* ---------------------------------------------------- AccurateEmailFinder
\* defaultdict reads and updates of scores and reasons
GetScore(scores, e) == IF e \in DOMAIN scores THEN scores[e] ELSE 0
GetReasons(reasons, e) == IF e \in DOMAIN reasons THEN reasons[e] ELSE <<>>

\* scores[e] += n; reasons[e].append(tag)
AddEvidence(ev, e, n, tag) ==
    [scores |-> (e :> (GetScore(ev.scores, e) + n)) @@ ev.scores,
     reasons |-> (e :> Append(GetReasons(ev.reasons, e), tag)) @@ ev.reasons]

\* for email in hits: if email in scores or email in candidates: ...
AddHits(ev, hits, cands, n, tag) ==
    LET elig == {e \in hits : e \in DOMAIN ev.scores \/ InList(e, cands)}
        keys == DOMAIN ev.scores \cup elig
    IN  [scores |-> [e \in keys |->
                        GetScore(ev.scores, e) + (IF e \in elig THEN n ELSE 0)],
         reasons |-> [e \in DOMAIN ev.reasons \cup elig |->
                        IF e \in elig
                        THEN Append(GetReasons(ev.reasons, e), tag)
                        ELSE GetReasons(ev.reasons, e)]]

\* The name tests of AccurateEmailFinder._match_known_email on one local part.
KnownLocalMatches(first, last, local) ==
    \/ /\ first # <<>> /\ last # <<>>
       /\ \/ Contains(first \o Dot \o last, local)
          \/ Contains(first \o last, local)
          \/ Contains(<<Head(first)>> \o last, local)
    \/ local = first

\* AccurateEmailFinder._match_known_email
RECURSIVE MatchKnownEmail(_, _, _)
MatchKnownEmail(first, last, emails) ==
    IF first = <<>> \/ emails = <<>> THEN <<>>
    ELSE IF KnownLocalMatches(first, last, Lower(LocalPart(Head(emails))))
         THEN Head(emails)
         ELSE MatchKnownEmail(first, last, Tail(emails))

\* AccurateEmailFinder.max_web_queries_per_contact (its default)
MaxWebQueries == 4

\* _duckduckgo_html_search that reads the page whatever the status
DuckDuckGoHtmlSearchAnyStatus(env, hits) == hits

\* AccurateEmailFinder._duckduckgo_html_search: the text in which the hits
\* are looked for, "" when the request raises or answers another status.
DuckDuckGoHtmlSearch(env, hits) == IF "search" \in env.failed THEN {} ELSE hits

\* candidates[:n]
Take(list, n) == SubSeq(list, 1, IF Len(list) < n THEN Len(list) ELSE n)

\* AccurateEmailFinder._search_web_candidate_mentions: [hits, log]
SearchWebCandidateMentions(queried, mentions) ==
    [hits |-> {c \in SeqRange(queried) : c \in mentions},
     log |-> [i \in 1..Len(queried) |-> Event("search_mention", queried[i])]]

\* AccurateEmailFinder._search_web_contextual: [hits, log]
SearchWebContextual(first, last, domain, ctx) ==
    [hits |-> {Lower(e) : e \in ctx},
     log |-> <<Event("search_context", first \o <<" ">> \o last)>>]

\* AccurateEmailFinder._smtp_verified_candidate
SmtpVerifiedCandidate(cands, domain, cache, env) ==
    TrySmtpVerification(cands, domain, cache, env)

GenericAliases ==
    { <<"a","d","m","i","n">>, <<"c","o","n","t","a","c","t">>,
      <<"c","a","r","e","e","r","s">>, <<"j","o","b","s">>, <<"h","r">> }

\* The penalty loop of find_best_email over the candidates.
RECURSIVE Penalties(_, _)
Penalties(ev, cands) ==
    IF cands = <<>> THEN ev
    ELSE LET email == Head(cands)
             local == LocalPart(email)
             ev1 == IF Len(local) <= 2
                    THEN AddEvidence(ev, email, -8, "short_local_penalty")
                    ELSE ev
             ev2 == IF local \in GenericAliases
                    THEN AddEvidence(ev1, email, -30, "generic_alias_penalty")
                    ELSE ev1
         IN  Penalties(ev2, Tail(cands))

\* the maximum taken over every address that has a score, candidate or not
BestAnyScored(cands, scores) ==
    LET all == SeqRange(cands) \cup DOMAIN scores
    IN  CHOOSE e \in all : \A x \in all : GetScore(scores, x) <= GetScore(scores, e)

\* the last candidate of maximal score (ties broken the other way)
BestLatest(cands, scores) ==
    LET i == CHOOSE k \in 1..Len(cands) :
                 /\ \A m \in 1..Len(cands) :
                        GetScore(scores, cands[m]) <= GetScore(scores, cands[k])
                 /\ \A m \in (k + 1)..Len(cands) :
                        GetScore(scores, cands[m]) < GetScore(scores, cands[k])
    IN  cands[i]

\* max(candidates, key=lambda c: scores[c]): the first candidate of maximal score
Best(cands, scores) ==
    LET i == CHOOSE k \in 1..Len(cands) :
                 /\ \A m \in 1..Len(cands) :
                        GetScore(scores, cands[m]) <= GetScore(scores, cands[k])
                 /\ \A m \in 1..(k - 1) :
                        GetScore(scores, cands[m]) < GetScore(scores, cands[k])
    IN  cands[i]

\* the thresholds compared strictly
ScoreToConfidenceStrict(score) ==
    IF score > 85 THEN "high"
    ELSE IF score > 55 THEN "medium"
    ELSE "low"

\* AccurateEmailFinder._score_to_confidence
ScoreToConfidence(score) ==
    IF score >= 85 THEN "high"
    ELSE IF score >= 55 THEN "medium"
    ELSE "low"

\* _pick_method that hands on the recorded reason itself
PickMethodReason(reasons) ==
    IF InList("website_exact_or_pattern_match", reasons) THEN <<"website_scrape">>
    ELSE IF InList("smtp_verified", reasons) THEN <<"smtp_verified">>
    ELSE IF InList("direct_web_mention", reasons) THEN <<"direct_web_mention">>
    ELSE IF InList("name_domain_context_match", reasons)
    THEN <<"name_domain_context_match">>
    ELSE <<"pattern_guess">>

\* _pick_method that asks for the SMTP reason first
PickMethodSmtpFirst(reasons) ==
    IF InList("smtp_verified", reasons) THEN <<"smtp_verified">>
    ELSE IF InList("website_exact_or_pattern_match", reasons) THEN <<"website_scrape">>
    ELSE IF InList("direct_web_mention", reasons) THEN <<"web_mention">>
    ELSE IF InList("name_domain_context_match", reasons) THEN <<"context_match">>
    ELSE <<"pattern_guess">>

\* AccurateEmailFinder._pick_method
PickMethod(reasons) ==
    IF InList("website_exact_or_pattern_match", reasons) THEN <<"website_scrape">>
    ELSE IF InList("smtp_verified", reasons) THEN <<"smtp_verified">>
    ELSE IF InList("direct_web_mention", reasons) THEN <<"web_mention">>
    ELSE IF InList("name_domain_context_match", reasons) THEN <<"context_match">>
    ELSE <<"pattern_guess">>

NoEvidence == [scores |-> <<>>, reasons |-> <<>>]

\* What one call did, beside its result: the path taken, the quota state it
\* left, the caches it left, the requests it made and, on the deep path, what
\* each collector found and the scores and reasons it accumulated.
Outcome(path, result, count, file, webCache, mxCache, log, found, ev) ==
    [path |-> path, result |-> result, count |-> count, file |-> file,
     webCache |-> webCache, mxCache |-> mxCache, log |-> log,
     found |-> found, ev |-> ev]

\* the fallback result handed on as it came
TagFallbackForgotten(result) == result

\* fallback["method"] = f"{fallback.get('method', 'pattern_guess')}+quota_fallback"
TagFallback(result) ==
    [result EXCEPT !.method = Append(result.method, "+quota_fallback")]

\* find_best_email from quota.increment() on: the count it is given is the
\* incremented one, which _save persists before the first collector runs.
DeepResolve(first, last, domain, cands, count, day, webCache, mxCache, env) ==
    LET ev0 == AddEvidence(NoEvidence, cands[1], 8, "default_pattern_prior")
        w == ScrapeWebsiteEmails(domain, webCache, PagesEmails(env))
        website_match == MatchKnownEmail(first, last, w.emails)
        ev1 == IF website_match # <<>>
               THEN AddEvidence(ev0, website_match, 90,
                                "website_exact_or_pattern_match")
               ELSE ev0
        m == SearchWebCandidateMentions(Take(cands, MaxWebQueries),
                                        DuckDuckGoHtmlSearch(env, env.mentions))
        ev2 == AddHits(ev1, m.hits, cands, 75, "direct_web_mention")
        c == SearchWebContextual(first, last, domain,
                                 DuckDuckGoHtmlSearch(env, env.ctx))
        ev3 == AddHits(ev2, c.hits, cands, 55, "name_domain_context_match")
        s == SmtpVerifiedCandidate(cands, domain, mxCache, env)
        ev4 == IF s.email # <<>>
               THEN AddEvidence(ev3, s.email, 65, "smtp_verified")
               ELSE ev3
        ev5 == Penalties(ev4, cands)
        best == Best(cands, ev5.scores)
        best_score == GetScore(ev5.scores, best)
    IN  Outcome("deep",
                Result(best, ScoreToConfidence(best_score), cands,
                       PickMethod(GetReasons(ev5.reasons, best))),
                count, Save(count, day), w.cache, s.cache,
                <<Event("quota_save", <<>>)>> \o w.log \o m.log \o c.log \o s.log,
                Found(website_match, m.hits, c.hits, s.email, <<>>),
                ev5)

\* AccurateEmailFinder.find_best_email
FindBestEmail(pats, smtpEnabled, full_name, domain, count, file, day, webCache, mxCache, env) ==
    LET first == NameParts[full_name][1]
        last0 == NameParts[full_name][2]
        last == IF last0 = <<>> THEN first ELSE last0
        cands == BuildCandidates(pats, first, last, domain)
    IN  IF first = <<>> \/ cands = <<>>
        THEN Outcome("empty", EmptyResult, count, file, webCache, mxCache,
                     <<>>, NothingFound, NoEvidence)
        ELSE IF ~CanProcess(count)
        THEN LET f == FindEmail(pats, smtpEnabled, first, last, domain,
                                webCache, mxCache, env)
             IN  Outcome("fallback", TagFallback(f.result), count, file,
                         f.webCache, f.mxCache, f.log, f.found, NoEvidence)
        ELSE DeepResolve(first, last, domain, cands, Increment(count), day,
                         webCache, mxCache, env)

\* ------------------------------------------------------------ DomainFinder
\* find_domain returns None
NoDomain == <<>>

Digits == {"0","1","2","3","4","5","6","7","8","9"}

\* company_name arguments of find_domain
CompanyAcme == <<"A","c","m","e"," ","A","I">>
CompanyAcmeSpaced == <<" ","A","C","M","E"," ","a","i"," ">>
CompanyOther == <<"O","t","h","e","r">>
Companies == {CompanyAcme, CompanyAcmeSpaced, CompanyOther}

\* domain_hint arguments of find_domain
HintAcme == <<"W","W","W",".","A","c","m","e",".","A","I">>
HintOther == <<"o","t","h","e","r",".","i","o">>
Hints == {Empty, HintAcme, HintOther}

\* research.common_tlds of config/settings.yaml
CommonTlds == << <<".","c","o","m">>, <<".","a","i">> >>

\* Names the DNS may resolve.
DnsNames == { <<"a","c","m","e",".","a","i">>, <<"o","t","h","e","r",".","i","o">>, <<"a","c","m","e","a","i",".","c","o","m">> }

\* Result pages: the anchors in page order, with whether each is a
\* a.result__a anchor.
Anchor(href, isResult) == [href |-> href, result |-> isResult]
UrlLinkedin == <<"h","t","t","p","s",":","/","/","w","w","w",".","l","i","n","k","e","d","i","n",".","c","o","m","/","c","o","m","p","a","n","y","/","a","c","m","e">>
UrlAcmeIo == <<"h","t","t","p","s",":","/","/","A","c","m","e",".","i","o","/","a","b","o","u","t">>
UrlRelative == <<"/","s","e","t","t","i","n","g","s">>
UrlBox == <<"h","t","t","p","s",":","/","/","b","o","x",".","c","o","m","/">>
Pages ==
    { <<>>,
      << Anchor(UrlBox, TRUE), Anchor(UrlLinkedin, TRUE) >>,
      << Anchor(UrlRelative, FALSE), Anchor(UrlLinkedin, TRUE),
         Anchor(UrlAcmeIo, TRUE) >>,
      << Anchor(UrlRelative, FALSE), Anchor(UrlAcmeIo, FALSE) >> }

\* A search request: it fails (or answers an error status), or yields a page.
SearchAnswers ==
    {[ok |-> FALSE, page |-> <<>>]} \cup {[ok |-> TRUE, page |-> pg] : pg \in Pages}

SKIP_DOMAINS ==
    { <<"g","o","o","g","l","e",".","c","o","m">>,
      <<"w","i","k","i","p","e","d","i","a",".","o","r","g">>,
      <<"l","i","n","k","e","d","i","n",".","c","o","m">>,
      <<"f","a","c","e","b","o","o","k",".","c","o","m">>,
      <<"t","w","i","t","t","e","r",".","c","o","m">>,
      <<"x",".","c","o","m">>,
      <<"c","r","u","n","c","h","b","a","s","e",".","c","o","m">>,
      <<"g","l","a","s","s","d","o","o","r",".","c","o","m">>,
      <<"i","n","d","e","e","d",".","c","o","m">>,
      <<"y","o","u","t","u","b","e",".","c","o","m">>,
      <<"g","i","t","h","u","b",".","c","o","m">>,
      <<"b","l","o","o","m","b","e","r","g",".","c","o","m">>,
      <<"t","e","c","h","c","r","u","n","c","h",".","c","o","m">>,
      <<"f","o","r","b","e","s",".","c","o","m">>,
      <<"r","e","u","t","e","r","s",".","c","o","m">>,
      <<"b","i","n","g",".","c","o","m">>,
      <<"d","u","c","k","d","u","c","k","g","o",".","c","o","m">>,
      <<"r","e","d","d","i","t",".","c","o","m">>,
      <<"q","u","o","r","a",".","c","o","m">>,
      <<"m","e","d","i","u","m",".","c","o","m">>,
      <<"a","p","p","l","e",".","c","o","m">>,
      <<"a","m","a","z","o","n",".","c","o","m">> }

StartsWith(s, prefix) == Len(s) >= Len(prefix) /\ SubSeq(s, 1, Len(prefix)) = prefix

\* re.sub(r"^www\.", "", s)
StripWww(s) ==
    IF StartsWith(s, <<"w","w","w",".">>) THEN SubSeq(s, 5, Len(s)) ELSE s

\* the longest prefix of s without a character of stops
RECURSIVE UpTo(_, _)
UpTo(s, stops) ==
    IF s = <<>> \/ Head(s) \in stops THEN <<>>
    ELSE <<Head(s)>> \o UpTo(Tail(s), stops)

\* re.search(r"https?://([^/&?#]+)", url): the group of the leftmost match,
\* <<>> without a match
RECURSIVE UrlHost(_)
UrlHost(url) ==
    LET http == <<"h","t","t","p",":","/","/">>
        https == <<"h","t","t","p","s",":","/","/">>
        stops == {"/", "&", "?", "#"}
        after == IF StartsWith(url, https) THEN SubSeq(url, 9, Len(url))
                 ELSE IF StartsWith(url, http) THEN SubSeq(url, 8, Len(url))
                 ELSE <<>>
    IN  IF url = <<>> THEN <<>>
        ELSE IF UpTo(after, stops) # <<>> THEN UpTo(after, stops)
        ELSE UrlHost(Tail(url))

\* DomainFinder._extract_domain_from_url (None is NoDomain)
ExtractDomainFromUrl(url) ==
    LET host == UrlHost(url)
        domain == StripWww(Lower(host))
    IN  IF host = <<>> THEN NoDomain
        ELSE IF InList(".", domain) THEN domain
        ELSE NoDomain

\* DomainFinder._is_skip_domain
IsSkipDomain(domain) == \E skip \in SKIP_DOMAINS : Contains(skip, domain)

\* for a_tag in anchors: ... return domain; (None at the end)
RECURSIVE FirstCompanyDomain(_)
FirstCompanyDomain(hrefs) ==
    IF hrefs = <<>> THEN NoDomain
    ELSE LET domain == ExtractDomainFromUrl(Head(hrefs))
         IN  IF domain # NoDomain /\ ~IsSkipDomain(domain) THEN domain
             ELSE FirstCompanyDomain(Tail(hrefs))

Hrefs(page) == [i \in 1..Len(page) |-> page[i].href]
ResultHrefs(page) == Hrefs(SelectSeq(page, LAMBDA a : a.result))

\* DomainFinder._duckduckgo_search
DuckDuckGoSearch(answer) ==
    IF ~answer.ok THEN NoDomain
    ELSE IF FirstCompanyDomain(ResultHrefs(answer.page)) # NoDomain
    THEN FirstCompanyDomain(ResultHrefs(answer.page))
    ELSE FirstCompanyDomain(Hrefs(answer.page))

\* DomainFinder._google_search
GoogleSearch(answer) ==
    IF ~answer.ok THEN NoDomain ELSE FirstCompanyDomain(Hrefs(answer.page))

\* re.sub(r"[^a-z0-9]", "", s)
RECURSIVE OnlyAlnum(_)
OnlyAlnum(s) ==
    IF s = <<>> THEN <<>>
    ELSE IF Head(s) \in LowerLetters \cup Digits
         THEN <<Head(s)>> \o OnlyAlnum(Tail(s))
         ELSE OnlyAlnum(Tail(s))

\* _validate_domain_hint that turns down a hint unlike the company name
ValidateDomainHintStrict(domain_hint, company_name, up) ==
    LET hint == StripWww(Strip(Lower(domain_hint)))
        slug == OnlyAlnum(Lower(company_name))
        domain_slug == OnlyAlnum(SplitOn(hint, ".")[1])
        log == <<Event("dns_a", hint)>>
    IN  IF hint \notin up THEN [domain |-> NoDomain, log |-> log]
        ELSE IF Len(slug) >= 3
                /\ (Contains(domain_slug, slug) \/ Contains(slug, domain_slug))
        THEN [domain |-> hint, log |-> log]
        ELSE [domain |-> NoDomain, log |-> log]

\* DomainFinder._validate_domain_hint: [domain, log]
ValidateDomainHint(domain_hint, company_name, up) ==
    LET hint == StripWww(Strip(Lower(domain_hint)))
        slug == OnlyAlnum(Lower(company_name))
        domain_slug == OnlyAlnum(SplitOn(hint, ".")[1])
        log == <<Event("dns_a", hint)>>
    IN  IF hint \notin up THEN [domain |-> NoDomain, log |-> log]
        ELSE IF Len(slug) >= 3
                /\ (Contains(domain_slug, slug) \/ Contains(slug, domain_slug))
        THEN [domain |-> hint, log |-> log]
        ELSE [domain |-> hint, log |-> log]

\* re.findall(r"[a-z0-9]+", name)
RECURSIVE FindWords(_)
FindWords(name) ==
    LET alnum == LowerLetters \cup Digits
        rest == IF name = <<>> \/ Head(name) \in alnum THEN name
                ELSE Tail(name)
        word == UpTo(name, {c \in SeqRange(name) : c \notin alnum})
    IN  IF name = <<>> THEN <<>>
        ELSE IF Head(name) \notin alnum THEN FindWords(Tail(name))
        ELSE <<word>> \o FindWords(SubSeq(name, Len(word) + 1, Len(name)))

\* "".join(words) and "-".join(words)
RECURSIVE Join(_, _)
Join(words, sep) ==
    IF words = <<>> THEN <<>>
    ELSE IF Len(words) = 1 THEN words[1]
    ELSE words[1] \o sep \o Join(Tail(words), sep)

\* The slug set of DomainFinder._dns_probe
Slugs(company_name) ==
    LET words == FindWords(Strip(Lower(company_name)))
    IN  IF words = <<>> THEN {}
        ELSE {Join(words, <<>>), words[1]}
             \cup (IF Len(words) > 1 THEN {Join(words, <<"-">>)} ELSE {})
             \cup (IF Len(words) >= 2 THEN {words[1] \o words[2]} ELSE {})

\* the inner loop of _dns_probe over the TLDs for one slug: [domain, log]
RECURSIVE ProbeTlds(_, _, _, _)
ProbeTlds(slug, tlds, up, log) ==
    IF tlds = <<>> THEN [domain |-> NoDomain, log |-> log]
    ELSE LET candidate == slug \o Head(tlds)
             log2 == Append(log, Event("dns_a", candidate))
         IN  IF candidate \in up THEN [domain |-> candidate, log |-> log2]
             ELSE ProbeTlds(slug, Tail(tlds), up, log2)

\* the outer loop of _dns_probe over the slugs in the order the set yields them
RECURSIVE ProbeSlugs(_, _, _)
ProbeSlugs(order, up, log) ==
    IF order = <<>> THEN [domain |-> NoDomain, log |-> log]
    ELSE LET slug == Head(order)
             r == ProbeTlds(slug, CommonTlds, up, log)
         IN  IF Len(slug) < 2 THEN ProbeSlugs(Tail(order), up, log)
             ELSE IF r.domain # NoDomain THEN r
             ELSE ProbeSlugs(Tail(order), up, r.log)

\* The orders in which Python may iterate a set.
Orders(set) ==
    {o \in [1..Cardinality(set) -> set] : \A x \in set : \E i \in DOMAIN o : o[i] = x}

\* DomainFinder._dns_probe, the set iterated in the given order
DnsProbe(order, up) == ProbeSlugs(order, up, <<>>)

\* the cache key without the normalisation
CacheKeyRaw(company_name) == company_name

\* key = company_name.strip().lower()
CacheKey(company_name) == Lower(Strip(company_name))

\* find_domain that asks Google before DuckDuckGo
FindDomainGoogleFirst(company_name, domain_hint, cache, env) ==
    LET key == CacheKey(company_name)
        h == IF domain_hint # <<>>
             THEN ValidateDomainHint(domain_hint, company_name, env.up)
             ELSE [domain |-> NoDomain, log |-> <<>>]
        d2 == IF h.domain # NoDomain THEN h
              ELSE [domain |-> GoogleSearch(env.google),
                    log |-> Append(h.log, Event("search_google", company_name))]
        d3 == IF d2.domain # NoDomain THEN d2
              ELSE [domain |-> DuckDuckGoSearch(env.ddg),
                    log |-> Append(d2.log, Event("search_ddg", company_name))]
        p == DnsProbe(env.order, env.up)
        d4 == IF d3.domain # NoDomain THEN d3
              ELSE [domain |-> p.domain, log |-> d3.log \o p.log]
    IN  IF key \in DOMAIN cache
        THEN [domain |-> cache[key], cache |-> cache, log |-> <<>>]
        ELSE [domain |-> d4.domain,
              cache |-> IF d4.domain # NoDomain THEN (key :> d4.domain) @@ cache
                        ELSE cache,
              log |-> d4.log]

\* DomainFinder.find_domain: [domain, cache, log]
FindDomain(company_name, domain_hint, cache, env) ==
    LET key == CacheKey(company_name)
        h == IF domain_hint # <<>>
             THEN ValidateDomainHint(domain_hint, company_name, env.up)
             ELSE [domain |-> NoDomain, log |-> <<>>]
        d2 == IF h.domain # NoDomain THEN h
              ELSE [domain |-> DuckDuckGoSearch(env.ddg),
                    log |-> Append(h.log, Event("search_ddg", company_name))]
        d3 == IF d2.domain # NoDomain THEN d2
              ELSE [domain |-> GoogleSearch(env.google),
                    log |-> Append(d2.log, Event("search_google", company_name))]
        p == DnsProbe(env.order, env.up)
        d4 == IF d3.domain # NoDomain THEN d3
              ELSE [domain |-> p.domain, log |-> d3.log \o p.log]
    IN  IF key \in DOMAIN cache
        THEN [domain |-> cache[key], cache |-> cache, log |-> <<>>]
        ELSE [domain |-> d4.domain,
              cache |-> IF d4.domain # NoDomain THEN (key :> d4.domain) @@ cache
                        ELSE cache,
              log |-> d4.log]

\* ------------------------------------------------------- company_variants
\* str.upper()
Upper(s) ==
    [i \in 1..Len(s) |->
        IF \E k \in 1..Len(LowerSeq) : LowerSeq[k] = s[i]
        THEN UpperSeq[CHOOSE k \in 1..Len(LowerSeq) : LowerSeq[k] = s[i]]
        ELSE s[i]]

\* s.endswith(suffix)
EndsWith(s, suffix) ==
    /\ Len(suffix) <= Len(s)
    /\ SubSeq(s, Len(s) - Len(suffix) + 1, Len(s)) = suffix

\* s.rstrip(chars)
RECURSIVE RStripChars(_, _)
RStripChars(s, chars) ==
    IF s # <<>> /\ s[Len(s)] \in chars
    THEN RStripChars(SubSeq(s, 1, Len(s) - 1), chars)
    ELSE s

\* The suffixes get_company_name_variants tries, in its order.
VariantSuffixes ==
    << <<" ","a","i">>,
       <<" ","a","i",".">>,
       <<" ","a","i",",">>,
       <<" ","m","l">>,
       <<" ","m","l",".">>,
       <<" ","m","l",",">>,
       <<" ","a","r","t","i","f","i","c","i","a","l"," ","i","n","t","e","l","l","i","g","e","n","c","e">>,
       <<" ","m","a","c","h","i","n","e"," ","l","e","a","r","n","i","n","g">>,
       <<" ","i","n","c">>,
       <<" ","i","n","c",".">>,
       <<" ","i","n","c",",">>,
       <<" ","l","t","d">>,
       <<" ","l","t","d",".">>,
       <<" ","l","l","c">>,
       <<" ","l","l","c",".">>,
       <<" ","c","o">>,
       <<" ","c","o",".">>,
       <<" ","c","o","r","p">>,
       <<" ","c","o","r","p",".">>,
       <<" ","c","o","m","p","a","n","y">> >>

\* add(s) of get_company_name_variants; seen holds the lowered entries of out.
AddVariant(out, s) ==
    LET t == Strip(s)
    IN  IF t # <<>> /\ Len(t) >= 2
           /\ ~\E i \in 1..Len(out) : Lower(out[i]) = Lower(t)
        THEN Append(out, t)
        ELSE out

\* The loop over the suffixes: it stops at the first suffix that leaves a base.
RECURSIVE SuffixLoop(_, _, _)
SuffixLoop(name, sfxs, out) ==
    IF sfxs = <<>> THEN out
    ELSE LET sfx == RStripChars(Head(sfxs), {".", ",", " "})
             base == Strip(SubSeq(name, 1, Len(name) - Len(sfx)))
         IN  IF EndsWith(Lower(name), sfx) /\ base # <<>>
             THEN AddVariant(out, base)
             ELSE SuffixLoop(name, Tail(sfxs), out)

\* One word that ends in "ai" or "ml".
OneWordVariants(name, out) ==
    LET ends == << <<"a","i">>, <<"m","l">> >>
        hit == {k \in 1..2 : EndsWith(Lower(name), ends[k]) /\ Len(name) > 2}
        end == ends[CHOOSE k \in hit : \A m \in hit : k <= m]
        base == Strip(SubSeq(name, 1, Len(name) - 2))
    IN  IF " " \in SeqRange(name) \/ Len(name) <= 2 \/ hit = {} \/ base = <<>>
        THEN out
        ELSE AddVariant(AddVariant(out, base), base \o <<" ">> \o Upper(end))

\* "X AI" or "X ML": add "X".
LastTokenVariant(name, out) ==
    LET parts == SplitOn(CollapseSpaces(Strip(name)), " ")
        base == Strip(Join(SubSeq(parts, 1, Len(parts) - 1), <<" ">>))
    IN  IF Len(parts) >= 2
           /\ Upper(parts[Len(parts)]) \in { <<"A","I">>, <<"M","L">> }
           /\ base # <<>>
        THEN AddVariant(out, base)
        ELSE out

\* get_company_name_variants
GetCompanyNameVariants(company_name) ==
    LET name == Strip(company_name)
    IN  IF name = <<>> THEN <<>>
        ELSE LastTokenVariant(name,
               OneWordVariants(name,
                 SuffixLoop(name, VariantSuffixes, AddVariant(<<>>, name))))

\* get_company_name_variants on the company names of the model, computed once.
CompanyVariants == [c \in Companies |-> GetCompanyNameVariants(c)]

\* ------------------------------------------------------------- EmailSender
\* EmailSender.max_per_day
MaxPerDay == MaxPerDayCfg

\* EmailSender._load_quota
LoadQuota(file, day) ==
    IF file.kind = "record" /\ file.date = day THEN file.count ELSE 0

\* EmailSender._save_quota
SaveQuota(sent, day) == [kind |-> "record", date |-> day, count |-> sent]

\* EmailSender.can_send
CanSend(sent) == sent < MaxPerDay

\* to_email arguments of send
Recipient == <<"a","@","b",".","c">>
ToEmails == {Empty, <<"a","b">>, Recipient}

\* How the SMTP session of one send goes: the connection or the login fails;
\* the server refuses the recipient or the data; the server accepts the
\* message and closes the session with 221 (or just drops the connection);
\* the server accepts the message and answers QUIT, which leaving the
\* "with" block sends, with another code than 221, so that leaving raises.
Sessions == {"unreachable", "auth_failed", "refused", "accepted", "accepted_quit_error"}

\* The server took the message (sendmail returned).
Accepted(session) == session \in {"accepted", "accepted_quit_error"}

\* The "with" block of send ended without raising.
SessionCompleted(session) == session = "accepted"

\* EmailSender.send: [result, sent, file, log, accepted]
Send(to_email, sent, file, day, session) ==
    IF ~CanSend(sent)
    THEN [result |-> FALSE, sent |-> sent, file |-> file, log |-> <<>>,
          accepted |-> FALSE]
    ELSE IF to_email = <<>> \/ ~InList("@", to_email)
    THEN [result |-> FALSE, sent |-> sent, file |-> file, log |-> <<>>,
          accepted |-> FALSE]
    ELSE IF SessionCompleted(session)
    THEN [result |-> TRUE, sent |-> sent + 1, file |-> SaveQuota(sent + 1, day),
          log |-> <<Event("smtp_session", to_email)>>, accepted |-> TRUE]
    ELSE [result |-> FALSE, sent |-> sent, file |-> file,
          log |-> <<Event("smtp_session", to_email)>>,
          accepted |-> Accepted(session)]

\* ------------------------------------------------------------------ state
VARIABLES
    today,        \* date.today(), as a day number
    qfile,        \* browser_data/quotas/email_research.json
    qcount,       \* EmailResearchQuota._count of the live AccurateEmailFinder
    patterns,     \* EmailFinder.patterns / AccurateEmailFinder.patterns
    smtp_enabled, \* EmailFinder.smtp_enabled
    webCache,     \* EmailFinder._website_emails_cache
    mxCache,      \* EmailFinder._mx_cache
    recorded,     \* history: the count the quota file held for today when the
                  \* live instance was constructed
    deepToday,    \* history: deep resolutions of the live instance today
    res,          \* the email call that has just returned, with what it did
    dcache,       \* DomainFinder._cache
    dres,         \* the find_domain call that has just returned
    dprev,        \* history: the find_domain call before, on this DomainFinder
    qpc,          \* where the quota tracker is: "down" (no live instance),
                  \* "ready", "saving" (inside _save) or "raised"
    qlast,        \* history: the last thing that happened to the tracker
    sfile,        \* browser_data/quotas/email_sender.json
    sent_today,   \* EmailSender._sent_today of the live EmailSender
    srecorded,    \* history: the count the sender's file held for today when
                  \* the live EmailSender was constructed
    handed,       \* history: messages the SMTP server has accepted from the
                  \* live EmailSender today
    sres          \* the send call that has just returned, with what it did

emailVars == <<today, qfile, qcount, patterns, smtp_enabled, webCache, mxCache,
               recorded, deepToday, res>>
domainVars == <<dcache, dres, dprev>>
trackerVars == <<qpc, qlast>>
senderVars == <<sfile, sent_today, srecorded, handed, sres>>
vars == <<emailVars, domainVars, trackerVars, senderVars>>

Idle == [op |-> "none"]

NoSmtp == [mx |-> <<>>, connect |-> FALSE, fake |-> FALSE, accepted |-> {}]

\* The answers the network can give to the requests of one call.
Envs(webs, smtps, githubs, mentionSets, ctxSets) ==
    { [web |-> w, mx |-> s.mx, connect |-> s.connect, fake |-> s.fake,
       accepted |-> s.accepted, github |-> g, mentions |-> m, ctx |-> c,
       failed |-> {}] :
      w \in webs, s \in smtps, g \in githubs, m \in mentionSets, c \in ctxSets }

\* Website answers: only an uncached domain is fetched.
WebAnswers(domain) ==
    IF domain \in DOMAIN webCache \/ domain = <<>> THEN {<<>>} ELSE WebLists(domain)

\* Mail answers: a cached MX list is not looked up again.
MailAnswers(cands, domain) ==
    IF domain = <<>> THEN {NoSmtp}
    ELSE IF domain \in DOMAIN mxCache
    THEN {a \in SmtpAnswers(cands) : a.mx = mxCache[domain]}
    ELSE SmtpAnswers(cands)

Init ==
    /\ today = 0
    /\ qfile = NoFile
    /\ qcount = Load(NoFile, 0)
    /\ patterns \in PatternLists
    /\ smtp_enabled \in BOOLEAN
    /\ webCache = <<>>
    /\ mxCache = <<>>
    /\ recorded = 0
    /\ deepToday = 0
    /\ res = Idle
    /\ dcache = <<>>
    /\ dres = Idle
    /\ dprev = Idle
    /\ qpc = "ready"
    /\ qlast = "construct"
    /\ sfile = NoFile
    /\ sent_today = LoadQuota(NoFile, 0)
    /\ srecorded = 0
    /\ handed = 0
    /\ sres = Idle

\* AccurateEmailFinder(): a new finder with a new quota tracker and new caches
\* (a restart of the process, or a new pipeline run in it).
Construct ==
    /\ res = Idle
    /\ qcount' = Load(qfile, today)
    /\ webCache' = <<>>
    /\ mxCache' = <<>>
    /\ recorded' = IF qfile.kind = "record" /\ qfile.date = today
                   THEN qfile.count ELSE 0
    /\ deepToday' = 0
    /\ UNCHANGED <<today, qfile, patterns, smtp_enabled, res>>
    /\ UNCHANGED <<domainVars, trackerVars, senderVars>>

\* Midnight passes.
AdvanceDay ==
    /\ res = Idle
    /\ today < MaxDay
    /\ today' = today + 1
    /\ recorded' = 0
    /\ deepToday' = 0
    /\ UNCHANGED <<qfile, qcount, patterns, smtp_enabled, webCache, mxCache, res>>
    /\ UNCHANGED <<domainVars, trackerVars, senderVars>>

\* finder.find_best_email(full_name, company_domain)
CallFindBestEmail ==
    /\ res = Idle
    /\ \E full_name \in FullNames, domain \in Domains \cup {Empty} :
         LET first == NameParts[full_name][1]
             last0 == NameParts[full_name][2]
             last == IF last0 = <<>> THEN first ELSE last0
             cands == BuildCandidates(patterns, first, last, domain)
             envs ==
               IF first = <<>> \/ cands = <<>>
               THEN Envs({<<>>}, {NoSmtp}, {<<>>}, {{}}, {{}})
               ELSE IF ~CanProcess(qcount)
               THEN Envs(WebAnswers(domain),
                         IF smtp_enabled
                         THEN MailAnswers(BasicCandidates(patterns, first, last, domain),
                                          domain)
                         ELSE {NoSmtp},
                         GithubEmails(domain), {{}}, {{}})
               ELSE Envs(WebAnswers(domain), MailAnswers(cands, domain), {<<>>},
                         SmallSubsets(SeqRange(Take(cands, MaxWebQueries))),
                         SmallSubsets(SeqRange(cands)))
         IN  \E env \in envs :
               \E o \in {FindBestEmail(patterns, smtp_enabled, full_name, domain,
                                       qcount, qfile, today, webCache, mxCache, env)} :
                   /\ res' = [op |-> "find_best_email", full_name |-> full_name,
                              first |-> first, last |-> last, domain |-> domain,
                              canProcess |-> CanProcess(qcount), env |-> env,
                              cands |-> cands, out |-> o,
                              before |-> [count |-> qcount, file |-> qfile,
                                          webCache |-> webCache,
                                          mxCache |-> mxCache]]
                   /\ qcount' = o.count
                   /\ qfile' = o.file
                   /\ webCache' = o.webCache
                   /\ mxCache' = o.mxCache
                   /\ deepToday' = IF o.path = "deep" THEN deepToday + 1 ELSE deepToday
    /\ UNCHANGED <<today, patterns, smtp_enabled, recorded>>
    /\ UNCHANGED <<domainVars, trackerVars, senderVars>>

\* first_name and last_name arguments of a direct EmailFinder.find_email call.
FirstNames == {Empty, <<"J","o">>, <<"7">>}
LastNames == {Empty, <<"D","o","e">>}

\* finder.basic.find_email(first_name, last_name, domain)
CallFindEmail ==
    /\ res = Idle
    /\ \E first_name \in FirstNames, last_name \in LastNames,
          domain \in Domains \cup {Empty} :
         LET first == OnlyLetters(Lower(first_name))
             last == OnlyLetters(Lower(last_name))
             envs ==
               IF first = <<>> \/ last = <<>> \/ domain = <<>>
               THEN Envs({<<>>}, {NoSmtp}, {<<>>}, {{}}, {{}})
               ELSE Envs(WebAnswers(domain),
                         IF smtp_enabled
                         THEN MailAnswers(BasicCandidates(patterns, first, last, domain),
                                          domain)
                         ELSE {NoSmtp},
                         GithubEmails(domain), {{}}, {{}})
         IN  \E env \in envs :
               \E f \in {FindEmail(patterns, smtp_enabled, first_name, last_name,
                                   domain, webCache, mxCache, env)} :
                   /\ res' = [op |-> "find_email", full_name |-> <<>>,
                              first |-> first, last |-> last, domain |-> domain,
                              canProcess |-> CanProcess(qcount), env |-> env,
                              cands |-> f.result.all_candidates,
                              out |-> Outcome("basic", f.result, qcount, qfile,
                                              f.webCache, f.mxCache, f.log,
                                              f.found, NoEvidence),
                              before |-> [count |-> qcount, file |-> qfile,
                                          webCache |-> webCache,
                                          mxCache |-> mxCache]]
                   /\ webCache' = f.webCache
                   /\ mxCache' = f.mxCache
    /\ UNCHANGED <<today, qfile, qcount, patterns, smtp_enabled, recorded, deepToday>>
    /\ UNCHANGED <<domainVars, trackerVars, senderVars>>

\* first, last and domain arguments of a direct _build_candidates call.
BuildFirsts == {Empty, <<"j">>, <<"j","o">>}
BuildLasts == {Empty, <<"d","o","e">>}

\* finder._build_candidates(first, last, domain)
CallBuildCandidates ==
    /\ res = Idle
    /\ \E first \in BuildFirsts, last \in BuildLasts, domain \in Domains \cup {Empty} :
         res' = [op |-> "build_candidates", first |-> first, last |-> last,
                 domain |-> domain,
                 out |-> BuildCandidates(patterns, first, last, domain)]
    /\ UNCHANGED <<today, qfile, qcount, patterns, smtp_enabled, webCache, mxCache,
                   recorded, deepToday>>
    /\ UNCHANGED <<domainVars, trackerVars, senderVars>>

\* The caller takes the result.
Return ==
    /\ res # Idle
    /\ res' = Idle
    /\ UNCHANGED <<today, qfile, qcount, patterns, smtp_enabled, webCache, mxCache,
                   recorded, deepToday>>
    /\ UNCHANGED <<domainVars, trackerVars, senderVars>>

Next ==
    \/ Construct
    \/ AdvanceDay
    \/ CallFindBestEmail
    \/ CallFindEmail
    \/ CallBuildCandidates
    \/ Return

Spec == Init /\ [][Next]_vars

\* ------------------------------------------------ the domain resolver alone
\* DomainFinder(): a new resolver with an empty cache.
ConstructDomainFinder ==
    /\ dres = Idle
    /\ dcache' = <<>>
    /\ dprev' = Idle
    /\ UNCHANGED dres
    /\ UNCHANGED <<emailVars, trackerVars, senderVars>>

\* domain_finder.find_domain(company_name, domain_hint)
CallFindDomain ==
    /\ dres = Idle
    /\ \E company_name \in Companies, domain_hint \in Hints, up \in SUBSET DnsNames :
       \E cached \in {CacheKey(company_name) \in DOMAIN dcache} :
       \E hinted \in {domain_hint # <<>>
                      /\ ValidateDomainHint(domain_hint, company_name, up).domain
                           # NoDomain} :
       \E failed \in {[ok |-> FALSE, page |-> <<>>]} :
       \* the answers of the requests the call does not make are left out
       \E ddg \in IF cached \/ hinted THEN {failed} ELSE SearchAnswers :
       \E found \in {cached \/ hinted \/ DuckDuckGoSearch(ddg) # NoDomain} :
       \E google \in IF found THEN {failed} ELSE SearchAnswers :
       \E order \in IF found \/ GoogleSearch(google) # NoDomain
                    THEN {CHOOSE o \in Orders(Slugs(company_name)) : TRUE}
                    ELSE Orders(Slugs(company_name)) :
       \E env \in {[up |-> up, ddg |-> ddg, google |-> google, order |-> order]} :
       \E o \in {FindDomain(company_name, domain_hint, dcache, env)} :
       \* what a search for a shorter variant of the name would answer
       \E variant_ddg \in IF o.domain = NoDomain
                             /\ Len(CompanyVariants[company_name]) > 1
                          THEN SearchAnswers ELSE {failed} :
         /\ dres' = [op |-> "find_domain", company_name |-> company_name,
                     domain_hint |-> domain_hint, env |-> env,
                     variant_ddg |-> variant_ddg,
                     cached |-> cached, prev |-> dprev, before |-> dcache,
                     out |-> o]
         /\ dcache' = o.cache
         /\ dprev' = [op |-> "find_domain", company_name |-> company_name,
                      domain |-> o.domain]
    /\ UNCHANGED <<emailVars, trackerVars, senderVars>>

\* The caller takes the domain.
ReturnDomain ==
    /\ dres # Idle
    /\ dres' = Idle
    /\ UNCHANGED <<dcache, dprev>>
    /\ UNCHANGED <<emailVars, trackerVars, senderVars>>

InitDomain == Init /\ patterns = <<>> /\ smtp_enabled

NextDomain ==
    \/ ConstructDomainFinder
    \/ CallFindDomain
    \/ ReturnDomain

SpecDomain == InitDomain /\ [][NextDomain]_vars

\* ------------------------------------- deep resolution with failing sources
\* The evidence sources that can fail for the length of a call.
Sources == {"web", "search", "smtp"}

\* finder.find_best_email(full_name, company_domain) on the deep path, while
\* some of the sources fail: the requests to them raise, time out or answer
\* an error status, whatever they would otherwise have answered.
CallFindBestEmailFailing ==
    /\ res = Idle
    /\ CanProcess(qcount)
    /\ \E full_name \in {NameJoDoe}, domain \in Domains,
          failed \in (SUBSET Sources) \ {{}} :
         LET first == NameParts[full_name][1]
             last0 == NameParts[full_name][2]
             last == IF last0 = <<>> THEN first ELSE last0
             cands == BuildCandidates(patterns, first, last, domain)
         IN  \E base \in Envs(WebAnswers(domain), MailAnswers(cands, domain), {<<>>},
                              SmallSubsets(SeqRange(Take(cands, MaxWebQueries))),
                              SmallSubsets(SeqRange(cands))) :
               \E env \in {[base EXCEPT !.failed = failed]} :
               \E o \in {FindBestEmail(patterns, smtp_enabled, full_name, domain,
                                       qcount, qfile, today, webCache, mxCache, env)} :
                   /\ res' = [op |-> "find_best_email", full_name |-> full_name,
                              first |-> first, last |-> last, domain |-> domain,
                              canProcess |-> CanProcess(qcount), env |-> env,
                              cands |-> cands, out |-> o,
                              before |-> [count |-> qcount, file |-> qfile,
                                          webCache |-> webCache,
                                          mxCache |-> mxCache]]
                   /\ qcount' = o.count
                   /\ qfile' = o.file
                   /\ webCache' = o.webCache
                   /\ mxCache' = o.mxCache
                   /\ deepToday' = deepToday + 1
    /\ UNCHANGED <<today, patterns, smtp_enabled, recorded>>
    /\ UNCHANGED <<domainVars, trackerVars, senderVars>>

InitFailures == Init /\ Len(patterns) = 3 /\ smtp_enabled

NextFailures ==
    \/ Construct
    \/ AdvanceDay
    \/ CallFindBestEmailFailing
    \/ Return

SpecFailures == InitFailures /\ [][NextFailures]_vars

\* ------------------------------------------------- the two caches alone
DomAcme == <<"a","c",".","m","e">>
CacheDomains == {DomEx, DomAcme}

\* What the MX lookup of a domain may answer at some moment: it raises, or
\* yields no host, or yields a host list.
MxAnswers ==
    { [ok |-> FALSE, hosts |-> <<>>],
      [ok |-> TRUE, hosts |-> <<>>],
      [ok |-> TRUE, hosts |-> <<MxHost>>],
      [ok |-> TRUE, hosts |-> <<MxHost \o <<"2">>, MxHost>>] }

\* finder.scrape_website_emails(domain): the website may show something else
\* at every call, or be unreachable.
CallScrapeWebsiteEmails ==
    /\ res = Idle
    /\ \E domain \in CacheDomains, failed \in {{}, {"web"}} :
       \E web \in WebLists(domain) :
       \E env \in {[web |-> web, failed |-> failed]} :
       \E w \in {ScrapeWebsiteEmails(domain, webCache, PagesEmails(env))} :
         /\ res' = [op |-> "scrape_website_emails", domain |-> domain,
                    env |-> env,
                    before |-> [webCache |-> webCache, mxCache |-> mxCache],
                    out |-> [value |-> w.emails, log |-> w.log]]
         /\ webCache' = w.cache
    /\ UNCHANGED <<today, qfile, qcount, patterns, smtp_enabled, mxCache,
                   recorded, deepToday>>
    /\ UNCHANGED <<domainVars, trackerVars, senderVars>>

\* finder.basic._get_mx(domain), as _try_smtp_verification calls it: the DNS
\* may answer something else at every call, or fail.
CallGetMx ==
    /\ res = Idle
    /\ \E domain \in CacheDomains, answer \in MxAnswers :
       \E m \in {GetMx(domain, mxCache, MxResolve(answer))} :
         /\ res' = [op |-> "get_mx", domain |-> domain, env |-> answer,
                    before |-> [webCache |-> webCache, mxCache |-> mxCache],
                    out |-> [value |-> m.hosts, log |-> m.log]]
         /\ mxCache' = m.cache
    /\ UNCHANGED <<today, qfile, qcount, patterns, smtp_enabled, webCache,
                   recorded, deepToday>>
    /\ UNCHANGED <<domainVars, trackerVars, senderVars>>

InitCaches == Init /\ Len(patterns) = 3 /\ smtp_enabled

NextCaches ==
    \/ Construct
    \/ CallScrapeWebsiteEmails
    \/ CallGetMx
    \/ Return

SpecCaches == InitCaches /\ [][NextCaches]_vars

\* ------------------------------------------------------- the sender alone
\* EmailSender(): a new sender that loads the count recorded for today.
SenderConstruct ==
    /\ sres = Idle
    /\ sent_today' = LoadQuota(sfile, today)
    /\ srecorded' = LoadQuota(sfile, today)
    /\ handed' = 0
    /\ UNCHANGED <<sfile, sres>>
    /\ UNCHANGED <<emailVars, domainVars, trackerVars>>

\* sender.send(to_email, subject, body)
SenderSend ==
    /\ sres = Idle
    /\ handed < MaxHanded
    /\ \E to_email \in ToEmails, session \in Sessions :
       \E o \in {Send(to_email, sent_today, sfile, today, session)} :
         /\ sres' = [op |-> "send", to_email |-> to_email, session |-> session,
                     before |-> [sent |-> sent_today, file |-> sfile],
                     out |-> o]
         /\ sent_today' = o.sent
         /\ sfile' = o.file
         /\ handed' = IF o.accepted THEN handed + 1 ELSE handed
    /\ UNCHANGED srecorded
    /\ UNCHANGED <<emailVars, domainVars, trackerVars>>

\* The caller takes the result of send.
SenderReturn ==
    /\ sres # Idle
    /\ sres' = Idle
    /\ UNCHANGED <<sfile, sent_today, srecorded, handed>>
    /\ UNCHANGED <<emailVars, domainVars, trackerVars>>

\* Midnight passes; a live sender keeps running.
SenderAdvanceDay ==
    /\ sres = Idle
    /\ today < MaxDay
    /\ today' = today + 1
    /\ srecorded' = 0
    /\ handed' = 0
    /\ UNCHANGED <<sfile, sent_today, sres>>
    /\ UNCHANGED <<qfile, qcount, patterns, smtp_enabled, webCache, mxCache,
                   recorded, deepToday, res>>
    /\ UNCHANGED <<domainVars, trackerVars>>

InitSender == Init /\ patterns = <<>> /\ smtp_enabled

NextSender ==
    \/ SenderConstruct
    \/ SenderSend
    \/ SenderReturn
    \/ SenderAdvanceDay

SpecSender == InitSender /\ [][NextSender]_vars

\* ------------------------------------------------ the quota tracker alone
Other(kind) == [kind |-> kind, date |-> 0, count |-> 0]

\* What the quota file may hold when a process starts.
InitialFiles ==
    {NoFile, Other("unreadable"), Other("empty"), Other("partial"),
     Other("json_list"), Other("json_dict")}
    \cup {[kind |-> "bad_count", date |-> d, count |-> 0] : d \in 0..MaxDay}
    \cup {Save(c, 0) : c \in 0..DailyLimit}

\* What the quota tracker does not touch.
finderVars == <<patterns, smtp_enabled, webCache, mxCache, recorded, deepToday, res>>

\* EmailResearchQuota(daily_limit): __init__ loads the count, or raises.
QuotaConstruct ==
    /\ qpc \in {"down", "raised"}
    /\ IF LoadRaises(qfile, today)
       THEN qpc' = "raised" /\ UNCHANGED qcount
       ELSE qpc' = "ready" /\ qcount' = Load(qfile, today)
    /\ qlast' = "construct"
    /\ UNCHANGED <<today, qfile>>
    /\ UNCHANGED <<finderVars, domainVars, senderVars>>

\* quota.increment(), called as find_best_email does after can_process():
\* the count goes up and _save opens the file for writing, which empties it.
QuotaIncrement ==
    /\ qpc = "ready"
    /\ CanProcess(qcount)
    /\ qcount' = Increment(qcount)
    /\ qfile' = Other("empty")
    /\ qpc' = "saving"
    /\ qlast' = "increment"
    /\ UNCHANGED today
    /\ UNCHANGED <<finderVars, domainVars, senderVars>>

\* write_text writes the payload and closes the file.
QuotaSaveDone ==
    /\ qpc = "saving"
    /\ qfile' = Save(qcount, today)
    /\ qpc' = "ready"
    /\ qlast' = "save"
    /\ UNCHANGED <<today, qcount>>
    /\ UNCHANGED <<finderVars, domainVars, senderVars>>

\* The process dies. Inside _save the file keeps what had been written so
\* far: nothing, a part of the payload, or all of it.
QuotaCrash ==
    /\ qpc \in {"ready", "saving"}
    /\ IF qpc = "saving"
       THEN /\ qfile' \in {Other("empty"), Other("partial"), Save(qcount, today)}
            /\ qlast' = "crash_in_save"
       ELSE /\ UNCHANGED qfile
            /\ qlast' = "crash"
    /\ qpc' = "down"
    /\ UNCHANGED <<today, qcount>>
    /\ UNCHANGED <<finderVars, domainVars, senderVars>>

\* Midnight passes; a live tracker keeps running.
QuotaAdvanceDay ==
    /\ qpc # "saving"
    /\ today < MaxDay
    /\ today' = today + 1
    /\ qlast' = "day"
    /\ UNCHANGED <<qfile, qcount, qpc>>
    /\ UNCHANGED <<finderVars, domainVars, senderVars>>

InitQuota ==
    /\ today = 0
    /\ qfile \in InitialFiles
    /\ qcount = 0
    /\ qpc = "down"
    /\ qlast = "none"
    /\ patterns = <<>>
    /\ smtp_enabled = TRUE
    /\ webCache = <<>>
    /\ mxCache = <<>>
    /\ recorded = 0
    /\ deepToday = 0
    /\ res = Idle
    /\ dcache = <<>>
    /\ dres = Idle
    /\ dprev = Idle
    /\ sfile = NoFile
    /\ sent_today = 0
    /\ srecorded = 0
    /\ handed = 0
    /\ sres = Idle

NextQuota ==
    \/ QuotaConstruct
    \/ QuotaIncrement
    \/ QuotaSaveDone
    \/ QuotaCrash
    \/ QuotaAdvanceDay

SpecQuota == InitQuota /\ [][NextQuota]_vars

\* ------------------------------------------------------------------ claims
IsBest == res.op = "find_best_email"
IsBasic == res.op = "find_email"
IsDeep == IsBest /\ res.out.path = "deep"
IsFallback == IsBest /\ res.out.path = "fallback"

HasMarker(method) == InList("+quota_fallback", method)

Kinds(log) == {log[i].ev : i \in 1..Len(log)}

\* The call made the fabricated-address probe and the server accepted it.
CatchAllSeen ==
    /\ (IsBest \/ IsBasic)
    /\ \E i \in 1..Len(res.out.log) :
         res.out.log[i] = Event("rcpt", FakeAddress(res.domain))
    /\ res.env.fake

NoSignal ==
    /\ res.out.found.website_match = <<>>
    /\ res.out.found.mention_hits = {}
    /\ res.out.found.contextual_hits = {}
    /\ res.out.found.smtp_verified = <<>>

\* C1: on one finder instance within one day, the deep resolutions it runs,
\* added to the count the quota file already held for that day when the
\* instance was constructed, never exceed the daily limit.
Thm_C1 == recorded + deepToday <= DailyLimit

\* A restarted finder that found one deep resolution recorded for today and
\* has just used up the rest of the budget.
Wit_C1 ==
    /\ IsDeep
    /\ recorded > 0
    /\ deepToday > 0
    /\ recorded + deepToday = DailyLimit

\* C2 as stated: every find_best_email call made while can_process() is
\* false, whatever the name and domain, returns a method that contains the
\* "+quota_fallback" marker.
Orig_C2 == (IsBest /\ ~res.canProcess) => HasMarker(res.out.result.method)

\* C2 amended: every find_best_email call made while can_process() is false
\* that has a usable first name and at least one generated candidate returns
\* a method that ends in the "+quota_fallback" marker.
Thm_C2 ==
    (IsBest /\ ~res.canProcess /\ res.first # <<>> /\ res.cands # <<>>)
        => /\ res.out.path = "fallback"
           /\ res.out.result.method # <<>>
           /\ res.out.result.method[Len(res.out.result.method)] = "+quota_fallback"

\* The budget is used up and the call was answered by the fallback resolver.
Wit_C2 ==
    /\ IsBest
    /\ ~res.canProcess
    /\ res.first # <<>>
    /\ res.out.result.method = <<"pattern_guess", "+quota_fallback">>

Claim_C4 ==
    (IsDeep /\ res.out.found.website_match # <<>>
            /\ res.out.found.mention_hits = {}
            /\ res.out.found.contextual_hits = {}
            /\ res.out.found.smtp_verified = <<>>)
        => /\ res.out.result.email = res.out.found.website_match
           /\ res.out.result.confidence = "high"
           /\ res.out.result.method = <<"website_scrape">>

\* C5 as stated: in a deep call in which no collector produces a signal the
\* result is the first generated candidate with confidence "low" and method
\* "pattern_guess", for every name and pattern list.
Orig_C5 ==
    (IsDeep /\ NoSignal)
        => /\ res.out.result.email = res.cands[1]
           /\ res.out.result.confidence = "low"
           /\ res.out.result.method = <<"pattern_guess">>

\* C5 amended: in a deep call in which no collector produces a signal and the
\* local part of the first generated candidate is not one of the generic
\* aliases (admin, contact, careers, jobs, hr), the result is the first
\* generated candidate with confidence "low" and method "pattern_guess".
Thm_C5 ==
    (IsDeep /\ NoSignal /\ LocalPart(res.cands[1]) \notin GenericAliases)
        => /\ res.out.result.email = res.cands[1]
           /\ res.out.result.confidence = "low"
           /\ res.out.result.method = <<"pattern_guess">>

\* A deep call without any signal over several candidates, the first of them
\* tied with the others after its short-local penalty.
Wit_C5 ==
    /\ IsDeep
    /\ NoSignal
    /\ Len(res.cands) > 1
    /\ LocalPart(res.cands[1]) \notin GenericAliases
    /\ \A i \in 1..Len(res.cands) : GetScore(res.out.ev.scores, res.cands[i]) = 0
    /\ res.out.result.email = res.cands[1]

\* The accumulated score of the email a deep call returned.
WinnerScore == GetScore(res.out.ev.scores, res.out.result.email)

\* C6: the confidence of a deep call is decided by the winner's accumulated
\* score alone: "high" iff score >= 85, "medium" iff 55 <= score < 85,
\* "low" iff score < 55, negative scores included.
Thm_C6 ==
    IsDeep =>
        /\ res.out.result.confidence = "high" <=> WinnerScore >= 85
        /\ res.out.result.confidence = "medium" <=>
             (WinnerScore >= 55 /\ WinnerScore < 85)
        /\ res.out.result.confidence = "low" <=> WinnerScore < 55

\* A deep call won with a score of exactly 55, reported "medium".
Wit_C6 ==
    /\ IsDeep
    /\ WinnerScore = 55
    /\ res.out.result.confidence = "medium"

SmtpKinds == {"mx_lookup", "connect25", "rcpt"}

\* C8 as stated: with smtp_verify_enabled false no resolution call, deep or
\* fallback, makes an MX lookup, a port-25 connection or an RCPT probe, and no
\* result has method "smtp_verified".
Claim_C8 ==
    ((IsBest \/ IsBasic) /\ ~smtp_enabled)
        => /\ Kinds(res.out.log) \cap SmtpKinds = {}
           /\ ~InList("smtp_verified", res.out.result.method)

\* The first token of the name holds no ASCII letter (or there is no token).
NoUsableFirst(full_name) ==
    LET tokens == SplitOn(Strip(CollapseSpaces(full_name)), " ")
    IN  \A i \in 1..Len(tokens[1]) :
          tokens[1][i] \notin LowerLetters \cup UpperLetters

\* C15: for every full_name whose first token holds no ASCII letter,
\* find_best_email returns email "" with confidence "low" and no candidates,
\* whatever the quota state and the domain.
Thm_C15 ==
    (IsBest /\ NoUsableFirst(res.full_name))
        => /\ res.out.result.email = <<>>
           /\ res.out.result.confidence = "low"
           /\ res.out.result.all_candidates = <<>>

\* A name that starts with a token of digits, asked with the budget used up.
Wit_C15 ==
    /\ IsBest
    /\ res.full_name = NameDigits
    /\ ~res.canProcess
    /\ res.domain # <<>>
    /\ res.out.result.email = <<>>

IsBuild == res.op = "build_candidates"

\* The entry ends in "@" followed by the domain.
EndsInAtDomain(email, domain) ==
    /\ Len(email) > Len(domain)
    /\ SubSeq(email, Len(email) - Len(domain), Len(email)) = At \o domain

\* What pattern i expands to for the arguments of the call.
Expansion(i) ==
    ExpandPattern(patterns[i], res.first, res.last,
                  Initial(res.first), Initial(res.last), res.domain)

\* The index of the first pattern that expands to the entry.
FirstPattern(email) ==
    CHOOSE i \in 1..Len(patterns) :
      Expansion(i) = email /\ \A k \in 1..(i - 1) : Expansion(k) # email

\* C16: for a non-empty first name and a non-empty domain, whatever the last
\* name and the pattern list, build_candidates returns a non-empty list
\* without duplicates, in pattern order, whose entries all end in "@domain".
Thm_C16 ==
    (IsBuild /\ res.first # <<>> /\ res.domain # <<>>)
        => /\ res.out # <<>>
           /\ \A i, k \in 1..Len(res.out) : i # k => res.out[i] # res.out[k]
           /\ \A i \in 1..Len(res.out) : EndsInAtDomain(res.out[i], res.domain)
           /\ IF patterns = <<>>
              THEN res.out = <<res.first \o At \o res.domain>>
              ELSE /\ \A i \in 1..Len(patterns) : InList(Expansion(i), res.out)
                   /\ \A i \in 1..Len(res.out) :
                        \E k \in 1..Len(patterns) : Expansion(k) = res.out[i]
                   /\ \A i, k \in 1..Len(res.out) :
                        i < k => FirstPattern(res.out[i]) < FirstPattern(res.out[k])

\* Two patterns expand to the same address and it is listed once.
Wit_C16 ==
    /\ IsBuild
    /\ res.first = <<"j">>
    /\ res.last = <<>>
    /\ res.domain = DomEx
    /\ Len(patterns) = 3
    /\ Len(res.out) = 2

\* C17: build_candidates with an empty first name returns the empty list,
\* whatever the last name, the domain and the pattern list.
Claim_C17 == (IsBuild /\ res.first = <<>>) => res.out = <<>>

\* The call ran while some evidence source failed.
IsFailing == IsBest /\ res.env.failed # {}

\* The same environment with every failed source answering and finding
\* nothing: an empty website, searches without a hit, a mail server that
\* rejects every address.
Quiet(env) ==
    [env EXCEPT
       !.failed = {},
       !.web = IF "web" \in env.failed THEN <<>> ELSE @,
       !.mentions = IF "search" \in env.failed THEN {} ELSE @,
       !.ctx = IF "search" \in env.failed THEN {} ELSE @,
       !.fake = IF "smtp" \in env.failed THEN FALSE ELSE @,
       !.accepted = IF "smtp" \in env.failed THEN {} ELSE @]

\* What the call would have returned from the same state in that environment.
QuietOutcome ==
    FindBestEmail(patterns, smtp_enabled, res.full_name, res.domain,
                  res.before.count, res.before.file, today,
                  res.before.webCache, res.before.mxCache, Quiet(res.env))

\* C18: whichever evidence sources fail during a deep find_best_email call
\* with a usable first name, the call returns a result, and the scores, the
\* reasons and the result are those of the same call with the failed sources
\* finding nothing.
Thm_C18 ==
    IsFailing =>
        /\ res.out.path = "deep"
        /\ res.out.result.email # <<>>
        /\ res.out.result.confidence \in {"high", "medium", "low"}
        /\ res.out.ev = QuietOutcome.ev
        /\ res.out.result = QuietOutcome.result
        /\ (res.env.mx = <<>> \/ ~res.env.connect \/ "smtp" \in res.env.failed)
             => res.out.found.smtp_verified = <<>>
        /\ ("web" \in res.env.failed /\ res.domain \notin DOMAIN res.before.webCache)
             => res.out.found.website_match = <<>>
        /\ "search" \in res.env.failed =>
             res.out.found.mention_hits = {} /\ res.out.found.contextual_hits = {}

\* Every source fails while the website shows a matching address, a search
\* would find a candidate and the mail server would accept one.
Wit_C18 ==
    /\ IsFailing
    /\ res.env.failed = Sources
    /\ res.env.web # <<>>
    /\ res.env.mentions # {}
    /\ res.env.mx # <<>> /\ res.env.connect /\ ~res.env.fake
    /\ res.env.accepted # {}
    /\ res.out.result.method = <<"pattern_guess">>
    /\ res.out.result.confidence = "low"

Confidences == {"high", "medium", "low"}

DeepMethods ==
    {"website_scrape", "smtp_verified", "web_mention", "context_match",
     "pattern_guess"}

\* C19 as stated: every result of find_best_email, on the deep path and on
\* the quota-fallback path, has a confidence among high, medium, low and a
\* method among website_scrape, smtp_verified, web_mention, context_match,
\* pattern_guess, optionally followed by the quota-fallback modifier.
Orig_C19 ==
    (IsDeep \/ IsFallback) =>
        /\ res.out.result.confidence \in Confidences
        /\ Len(res.out.result.method) \in {1, 2}
        /\ res.out.result.method[1] \in DeepMethods
        /\ Len(res.out.result.method) = 2 =>
             res.out.result.method[2] = "+quota_fallback"

\* C19 amended: every such result has a confidence among high, medium, low;
\* on the deep path the method is one of website_scrape, smtp_verified,
\* web_mention, context_match, pattern_guess; on the quota-fallback path it is
\* one of website_scrape, smtp_verified, github, pattern_guess followed by the
\* quota-fallback modifier, or the modifier alone when the domain is empty.
Thm_C19 ==
    /\ IsDeep =>
         /\ res.out.result.confidence \in Confidences
         /\ res.out.result.method \in {<<m>> : m \in DeepMethods}
    /\ IsFallback =>
         /\ res.out.result.confidence \in Confidences
         /\ IF res.domain = <<>>
            THEN res.out.result.method = <<"+quota_fallback">>
            ELSE res.out.result.method \in
                   {<<m, "+quota_fallback">> :
                      m \in {"website_scrape", "smtp_verified", "github",
                             "pattern_guess"}}

\* The fallback resolver found the address on GitHub.
Wit_C19 ==
    /\ IsFallback
    /\ res.out.result.method = <<"github", "+quota_fallback">>
    /\ res.out.result.confidence = "medium"

\* The reasons recorded for the winner of a deep call.
WinnerReasons == GetReasons(res.out.ev.reasons, res.out.result.email)

WinnerHas(reason) == InList(reason, WinnerReasons)

\* C20: in a deep resolution the method tag is the highest-priority evidence
\* reason recorded for the winner, in the order website match, SMTP verified,
\* direct mention, contextual match, and "pattern_guess" iff the winner has
\* none of the four.
Thm_C20 ==
    IsDeep =>
        LET web == WinnerHas("website_exact_or_pattern_match")
            smtp == WinnerHas("smtp_verified")
            mention == WinnerHas("direct_web_mention")
            ctx == WinnerHas("name_domain_context_match")
            method == res.out.result.method
        IN  /\ method = <<"website_scrape">> <=> web
            /\ method = <<"smtp_verified">> <=> (~web /\ smtp)
            /\ method = <<"web_mention">> <=> (~web /\ ~smtp /\ mention)
            /\ method = <<"context_match">> <=> (~web /\ ~smtp /\ ~mention /\ ctx)
            /\ method = <<"pattern_guess">> <=> (~web /\ ~smtp /\ ~mention /\ ~ctx)

\* The winner was found on the website and verified by SMTP as well.
Wit_C20 ==
    /\ IsDeep
    /\ WinnerHas("website_exact_or_pattern_match")
    /\ WinnerHas("smtp_verified")
    /\ res.out.result.method = <<"website_scrape">>

\* ---------------------------------------------------- claims on DomainFinder
IsFindDomain == dres # Idle

\* The call before, on the same DomainFinder, named the same company
\* (compared without case and surrounding whitespace).
SameCompanyBefore ==
    /\ IsFindDomain
    /\ dres.prev # Idle
    /\ Lower(Strip(dres.prev.company_name)) = Lower(Strip(dres.company_name))

\* Whatever find_domain looked up outside the process.
Lookups == {"dns_a", "search_ddg", "search_google"}

\* C9 as stated: of two successive find_domain calls with the same company
\* name, the second returns what the first returned and looks nothing up,
\* whether the first resolved a domain or returned None.
Orig_C9 ==
    SameCompanyBefore =>
        /\ dres.out.domain = dres.prev.domain
        /\ Kinds(dres.out.log) \cap Lookups = {}

\* C9: of two successive find_domain calls with the same company name
\* (compared without case and surrounding whitespace), when the first
\* resolved a domain the second returns that domain and looks nothing up.
Thm_C9 ==
    (SameCompanyBefore /\ dres.prev.domain # NoDomain) =>
        /\ dres.out.domain = dres.prev.domain
        /\ Kinds(dres.out.log) \cap Lookups = {}

\* A second call spelled differently, with a hint that would resolve, after a
\* first call that resolved a domain.
Wit_C9 ==
    /\ SameCompanyBefore
    /\ dres.prev.domain # NoDomain
    /\ dres.prev.company_name # dres.company_name
    /\ dres.domain_hint = HintOther
    /\ StripWww(Lower(HintOther)) \in dres.env.up
    /\ dres.out.domain = dres.prev.domain

\* The hint of the call, lowercased and without a leading "www.", resolves.
HintResolves ==
    /\ IsFindDomain
    /\ dres.domain_hint # <<>>
    /\ StripWww(Lower(dres.domain_hint)) \in dres.env.up

\* The call returned the normalized hint after one DNS question about it.
HintReturned ==
    /\ dres.out.domain = StripWww(Lower(dres.domain_hint))
    /\ dres.out.log = <<Event("dns_a", StripWww(Lower(dres.domain_hint)))>>

\* C10 as stated: a call with a non-empty hint whose normalized form resolves
\* returns that hint without searching or probing, in every state of the
\* resolver.
Orig_C10 == HintResolves => HintReturned

\* C10: a call with a non-empty hint whose normalized form resolves, for a
\* company name that is not in the resolver's cache, returns that hint
\* without searching or probing, however unlike the company name it is.
Thm_C10 == (HintResolves /\ ~dres.cached) => HintReturned

\* A hint unlike the company name is returned, after an earlier call for the
\* same company found nothing.
Wit_C10 ==
    /\ HintResolves
    /\ ~dres.cached
    /\ SameCompanyBefore
    /\ dres.company_name = CompanyAcme
    /\ dres.domain_hint = HintOther
    /\ HintReturned

\* The shorter variants of the company name of the call.
ShorterVariants ==
    LET vs == CompanyVariants[dres.company_name]
    IN  {vs[i] : i \in 2..Len(vs)}

\* What the whole strategy chain finds for a variant of the name, on a resolver
\* that has not seen it: the same DNS, the search answering for the variant.
ChainFor(variant) ==
    FindDomain(variant, Empty, <<>>,
               [up |-> dres.env.up, ddg |-> dres.variant_ddg,
                google |-> [ok |-> FALSE, page |-> <<>>],
                order |-> CHOOSE o \in Orders(Slugs(variant)) : TRUE]).domain

\* Hint validation, both searches and the DNS probe fail for the full name.
EveryStrategyFails ==
    /\ dres.domain_hint # <<>> =>
         ValidateDomainHint(dres.domain_hint, dres.company_name, dres.env.up).domain
           = NoDomain
    /\ DuckDuckGoSearch(dres.env.ddg) = NoDomain
    /\ GoogleSearch(dres.env.google) = NoDomain
    /\ DnsProbe(dres.env.order, dres.env.up).domain = NoDomain

\* C11: when every strategy fails for the full company name and the chain
\* succeeds for a variant without the trailing AI/ML/corporate suffix,
\* find_domain returns the domain found for the variant.
Claim_C11 ==
    (IsFindDomain /\ ~dres.cached /\ EveryStrategyFails)
        => \A v \in ShorterVariants :
             ChainFor(v) # NoDomain => dres.out.domain = ChainFor(v)

\* ------------------------------------------------ claims on the quota tracker
\* C12: whenever the date of the persisted record differs from the current
\* date, the count that can_process and remaining use is 0.
Claim_C12 ==
    (qpc = "ready" /\ qfile.kind = "record" /\ qfile.date # today)
        => /\ qcount = 0
           /\ CanProcess(qcount)
           /\ Remaining(qcount) = DailyLimit

\* C13: whatever the quota file holds, constructing the tracker raises no
\* error, and it yields count 0 unless the file holds a well-formed record
\* dated today.
Claim_C13 ==
    qlast = "construct"
        => /\ qpc # "raised"
           /\ ~(qfile.kind = "record" /\ qfile.date = today) => qcount = 0

\* C14: after a crash during the persist step of increment the quota file
\* holds a complete record, the previous or the new one.
Claim_C14 == qlast = "crash_in_save" => qfile.kind = "record"

\* ------------------------------------------- further claims on the resolvers
\* The position of the returned email among the generated candidates.
WinnerIndex == CHOOSE i \in 1..Len(res.cands) : res.cands[i] = res.out.result.email

CandScore(i) == GetScore(res.out.ev.scores, res.cands[i])

\* C21: the email a deep call returns is a generated candidate, no generated
\* candidate has a higher accumulated score, and every candidate generated
\* before it has a strictly lower one.
Thm_C21 ==
    IsDeep =>
        /\ InList(res.out.result.email, res.cands)
        /\ res.out.result.all_candidates = res.cands
        /\ \A i \in 1..Len(res.cands) : CandScore(i) <= WinnerScore
        /\ \A i \in 1..(WinnerIndex - 1) : CandScore(i) < WinnerScore

\* The second of three candidates wins: the first is penalised below it and
\* the third has the same score.
Wit_C21 ==
    /\ IsDeep
    /\ Len(res.cands) = 3
    /\ res.out.result.email = res.cands[2]
    /\ CandScore(1) < CandScore(2)
    /\ CandScore(3) = CandScore(2)

\* The reasons recorded for candidate i are exactly the given ones.
CandReasons(i) == GetReasons(res.out.ev.reasons, res.cands[i])

\* C22: the weights order the evidence website match > SMTP verified > direct
\* mention > contextual match > default prior: in a deep call in which one
\* candidate other than the first has the SMTP verification as its only
\* evidence, another one has a direct mention as its only evidence and no
\* candidate has any other evidence, the SMTP-verified candidate is returned.
Claim_C22 ==
    IsDeep =>
        \A a, b \in 2..Len(res.cands) :
            (/\ CandReasons(a) = <<"smtp_verified">>
             /\ CandReasons(b) = <<"direct_web_mention">>
             /\ res.out.found.website_match = <<>>
             /\ res.out.found.contextual_hits = {})
                => res.out.result.email = res.cands[a]

\* The writes of the quota file the call made.
QuotaSaves == {i \in 1..Len(res.out.log) : res.out.log[i].ev = "quota_save"}

\* The call got past the early returns with budget left: it ran the collectors.
RanCollectors == IsBest /\ res.first # <<>> /\ res.cands # <<>> /\ res.canProcess

\* C23: a find_best_email call that runs the evidence collectors raises the
\* count by exactly 1 and persists it once, before the first collector's
\* request; a call that returns early or delegates to the fallback resolver,
\* and a direct call of the fallback resolver, leave the count and the
\* persisted record as they were.
Thm_C23 ==
    (IsBest \/ IsBasic) =>
        /\ IsDeep <=> RanCollectors
        /\ qcount = res.out.count /\ qfile = res.out.file
        /\ IF RanCollectors
           THEN /\ qcount = res.before.count + 1
                /\ qfile = Save(res.before.count + 1, today)
                /\ QuotaSaves = {1}
           ELSE /\ qcount = res.before.count
                /\ qfile = res.before.file
                /\ QuotaSaves = {}

\* The last unit of the budget is consumed by a deep call that went on to
\* query every collector.
Wit_C23 ==
    /\ IsDeep
    /\ res.before.count = DailyLimit - 1
    /\ res.before.file = Save(DailyLimit - 1, today)
    /\ qfile = Save(DailyLimit, today)
    /\ {"http_get", "search_mention", "search_context", "mx_lookup"}
          \subseteq Kinds(res.out.log)

\* The budget is used up: the fallback resolver answered and the record stayed.
Wit_C23_Fallback ==
    /\ IsFallback
    /\ res.out.log # <<>>
    /\ qfile = res.before.file
    /\ qcount = DailyLimit

\* ------------------------------------------ further claims on DomainFinder
\* What each strategy yields for the call, were it asked.
ByHint ==
    IF dres.domain_hint = <<>> THEN NoDomain
    ELSE ValidateDomainHint(dres.domain_hint, dres.company_name, dres.env.up).domain
ByPrimary == DuckDuckGoSearch(dres.env.ddg)
ByFallback == GoogleSearch(dres.env.google)
ByProbe == DnsProbe(dres.env.order, dres.env.up)

\* The requests of each strategy.
HintAsked == <<Event("dns_a", StripWww(Strip(Lower(dres.domain_hint))))>>
PrimaryAsked == <<Event("search_ddg", dres.company_name)>>
FallbackAsked == <<Event("search_google", dres.company_name)>>

\* The call was not answered from the cache.
IsMiss == IsFindDomain /\ ~dres.cached

\* C24: on a cache miss find_domain validates the hint (only when one is
\* given), then asks the primary search engine, then the fallback search
\* engine, then probes the DNS; it returns the domain of the first strategy
\* that yields one and makes no request of a later strategy; it caches that
\* domain so that a lookup of the lowercased company name finds it, and when
\* every strategy fails it returns None and caches nothing.
Thm_C24 ==
    IsMiss =>
        /\ dres.out.domain =
             (IF ByHint # NoDomain THEN ByHint
              ELSE IF ByPrimary # NoDomain THEN ByPrimary
              ELSE IF ByFallback # NoDomain THEN ByFallback
              ELSE ByProbe.domain)
        /\ dres.out.log =
             (IF dres.domain_hint # <<>> THEN HintAsked ELSE <<>>)
             \o (IF ByHint = NoDomain THEN PrimaryAsked ELSE <<>>)
             \o (IF ByHint = NoDomain /\ ByPrimary = NoDomain
                 THEN FallbackAsked ELSE <<>>)
             \o (IF ByHint = NoDomain /\ ByPrimary = NoDomain /\ ByFallback = NoDomain
                 THEN ByProbe.log ELSE <<>>)
        /\ IF dres.out.domain # NoDomain
           THEN /\ CacheKey(Lower(dres.company_name)) \in DOMAIN dcache
                /\ dcache[CacheKey(Lower(dres.company_name))] = dres.out.domain
                /\ DOMAIN dcache = DOMAIN dres.before
                                     \cup {CacheKey(Lower(dres.company_name))}
                /\ \A k \in DOMAIN dres.before : dcache[k] = dres.before[k]
           ELSE dcache = dres.before

\* A hint that does not resolve and a primary search without a company link:
\* the fallback search engine yields the domain and the DNS is not probed.
Wit_C24 ==
    /\ IsMiss
    /\ dres.domain_hint # <<>>
    /\ ByHint = NoDomain
    /\ dres.env.ddg.ok /\ ByPrimary = NoDomain
    /\ ByFallback # NoDomain
    /\ dres.out.domain = ByFallback
    /\ ByProbe.domain # NoDomain
    /\ Len(dres.out.log) = 3

\* Every strategy fails: None is returned after all four were tried.
Wit_C24_None ==
    /\ IsMiss
    /\ dres.domain_hint # <<>>
    /\ dres.out.domain = NoDomain
    /\ Len(dres.out.log) > 3

\* The domain is on the denylist, or a subdomain of a domain on it.
OnDenylist(domain) ==
    \/ domain \in SKIP_DOMAINS
    \/ \E skip \in SKIP_DOMAINS : EndsWith(domain, Dot \o skip)

\* The domain of the first link, in page order, that has a domain off the
\* denylist (None without such a link).
RECURSIVE FirstAllowed(_)
FirstAllowed(hrefs) ==
    IF hrefs = <<>> THEN NoDomain
    ELSE IF ExtractDomainFromUrl(Head(hrefs)) # NoDomain
            /\ ~OnDenylist(ExtractDomainFromUrl(Head(hrefs)))
         THEN ExtractDomainFromUrl(Head(hrefs))
         ELSE FirstAllowed(Tail(hrefs))

\* The call asked the primary search engine and got a page.
PrimaryAnswered == IsMiss /\ ByHint = NoDomain /\ dres.env.ddg.ok

\* The call asked the fallback search engine and got a page.
FallbackAnswered ==
    IsMiss /\ ByHint = NoDomain /\ ByPrimary = NoDomain /\ dres.env.google.ok

\* C25: search-engine discovery returns the domain of the first result link,
\* in page order, whose domain is off the denylist: a domain on the denylist
\* is never returned, and a link whose domain is neither on the denylist nor a
\* subdomain of a denylisted domain is never passed over.
Claim_C25 ==
    /\ PrimaryAnswered =>
         /\ ByPrimary # NoDomain => ~OnDenylist(ByPrimary)
         /\ FirstAllowed(ResultHrefs(dres.env.ddg.page)) # NoDomain =>
              ByPrimary = FirstAllowed(ResultHrefs(dres.env.ddg.page))
    /\ FallbackAnswered =>
         /\ ByFallback # NoDomain => ~OnDenylist(ByFallback)
         /\ ByFallback = FirstAllowed(Hrefs(dres.env.google.page))

\* --------------------------------------- further claims on the email finders
CallLog == res.out.log

\* The RCPT probes of candidates the call made (positions in its log).
CandProbes ==
    {i \in 1..Len(CallLog) :
        CallLog[i].ev = "rcpt" /\ CallLog[i].arg # FakeAddress(res.domain)}

\* The candidates probed, in the order of the probes.
Probed == [n \in 1..Cardinality(CandProbes) |->
             CallLog[CHOOSE i \in CandProbes :
                       Cardinality({k \in CandProbes : k <= i}) = n].arg]

\* The candidates _try_smtp_verification was given: those of the result,
\* without the address the GitHub strategy appended afterwards.
Given ==
    IF res.out.found.github # <<>>
    THEN SubSeq(res.out.result.all_candidates, 1,
                Len(res.out.result.all_candidates) - 1)
    ELSE res.out.result.all_candidates

IsScrape == res.op = "scrape_website_emails"
IsGetMx == res.op = "get_mx"

\* The cache the call consulted, before and after it.
CacheBefore == IF IsScrape THEN res.before.webCache ELSE res.before.mxCache
CacheAfter == IF IsScrape THEN webCache ELSE mxCache

\* The domain had been asked about before on this EmailFinder.
AskedBefore == res.domain \in DOMAIN CacheBefore

\* C27: on one EmailFinder, the first MX lookup and the first website scrape
\* for a domain remember their value whatever the outcome (something found,
\* nothing found, lookup failed), and every later one for the same domain
\* makes no request and returns the remembered value, whatever the network
\* would answer then; values remembered for other domains are not touched.
Thm_C27 ==
    (IsScrape \/ IsGetMx) =>
        /\ IF AskedBefore
           THEN /\ res.out.log = <<>>
                /\ res.out.value = CacheBefore[res.domain]
                /\ CacheAfter = CacheBefore
           ELSE /\ Len(res.out.log) = 1
                /\ res.domain \in DOMAIN CacheAfter
                /\ CacheAfter[res.domain] = res.out.value
                /\ DOMAIN CacheAfter = DOMAIN CacheBefore \cup {res.domain}
                /\ \A d \in DOMAIN CacheBefore : CacheAfter[d] = CacheBefore[d]
        /\ IsScrape => mxCache = res.before.mxCache
        /\ IsGetMx => webCache = res.before.webCache

\* An MX lookup that had failed or found nothing is not repeated: the DNS now
\* has hosts for the domain and the call still returns the empty list.
Wit_C27 ==
    /\ IsGetMx
    /\ AskedBefore
    /\ res.env.ok /\ res.env.hosts # <<>>
    /\ res.out.value = <<>>
    /\ res.out.log = <<>>
    /\ DOMAIN webCache = CacheDomains
    /\ webCache[res.domain] = <<>>

\* C28: every result of find_best_email, deep or fallback, and of
\* EmailFinder.find_email has an email that is "" or one of the addresses in
\* its all_candidates list.
Claim_C28 ==
    (IsBest \/ IsBasic) =>
        \/ res.out.result.email = <<>>
        \/ InList(res.out.result.email, res.out.result.all_candidates)

\* The slug variants of the company name of the call in the order in which
\* _dns_probe adds them: concatenated words, first word, hyphenated, first two
\* words concatenated.
ListedSlugs ==
    LET words == FindWords(Strip(Lower(dres.company_name)))
    IN  IF words = <<>> THEN <<>>
        ELSE <<Join(words, <<>>), words[1]>>
             \o (IF Len(words) > 1 THEN <<Join(words, <<"-">>)>> ELSE <<>>)
             \o (IF Len(words) >= 2 THEN <<words[1] \o words[2]>> ELSE <<>>)

\* The call got as far as the DNS probe.
Probing ==
    IsMiss /\ ByHint = NoDomain /\ ByPrimary = NoDomain /\ ByFallback = NoDomain

\* C29: the DNS probe is a function of the company name, the TLD list and
\* the DNS state: it returns the first resolving slug+TLD combination with the
\* slugs tried in the order concatenated words, first word, hyphenated, first
\* two words concatenated and, within a slug, the TLDs in configured order.
Claim_C29 ==
    Probing => dres.out.domain = DnsProbe(ListedSlugs, dres.env.up).domain

\* --------------------------------------------------- claims on EmailSender
IsSend == sres.op = "send"

\* C30: on one EmailSender within one day the messages the SMTP server has
\* accepted, added to the sends the file recorded for that day when the sender
\* was constructed, never exceed max_emails_per_day; a send attempted with the
\* count at the limit returns False without contacting the server; the
\* counter and the persisted record go up only in a send whose message the
\* server accepted.
Claim_C30 ==
    /\ srecorded + handed <= MaxPerDay
    /\ IsSend =>
         /\ sres.before.sent >= MaxPerDay =>
              sres.out.result = FALSE /\ sres.out.log = <<>>
         /\ (sent_today # sres.before.sent \/ sfile # sres.before.file) =>
              /\ sres.out.accepted
              /\ sent_today = sres.before.sent + 1
              /\ sfile = SaveQuota(sent_today, today)

====
